---- MODULE Spec2Model ----
(***************************************************************************)
(* Model of the bulk mail dispatcher of src/app.py: the campaign store     *)
(* (campaign_db.json), the send counter (total_emails_sent.json), the      *)
(* launch batch send_bulk_emails and the follow-up batch                   *)
(* send_followup_emails, together with the helpers they call.              *)
(*                                                                         *)
(* Text is a sequence of one-character strings.  Time is a natural number  *)
(* of clock ticks; a day is TicksPerDay ticks.                             *)
(***************************************************************************)
EXTENDS Integers, Sequences, FiniteSets, TLC

\* ------------------------------------------------------------------ bounds
MaxClock == 3      \* the clock stops advancing at this tick
MaxRows == 2       \* rows of an uploaded recipient list
MaxBatches == 2    \* batches started over one behaviour

\* ------------------------------------------------- constants of the program
TicksPerDay == 1           \* a tick is the unit of time of the model
PlannedFollowups == 5     \* "total_followups_planned": 5
IntervalDays == 3         \* "followup_interval_days": 3
LaunchDelayDays == 3      \* timedelta(days=3) of the launch

Procs == {1, 2}

\* ---------------------------------------------------------------- text
SPACE == " "

RECURSIVE lstrip(_)
lstrip(s) == IF s # <<>> /\ Head(s) = SPACE THEN lstrip(Tail(s)) ELSE s

RECURSIVE rstrip(_)
rstrip(s) ==
    IF s # <<>> /\ s[Len(s)] = SPACE THEN rstrip(SubSeq(s, 1, Len(s) - 1)) ELSE s

\* str.strip()
strip(s) == rstrip(lstrip(s))

\* str.startswith()
startswith(s, prefix) ==
    Len(s) >= Len(prefix) /\ SubSeq(s, 1, Len(prefix)) = prefix

APOS == "'"
QUOTE == "\""
BACKSLASH == "\\"

\* str.strip(chars) for a single character c
RECURSIVE lstrip_chr(_, _)
lstrip_chr(s, c) == IF s # <<>> /\ Head(s) = c THEN lstrip_chr(Tail(s), c) ELSE s

RECURSIVE rstrip_chr(_, _)
rstrip_chr(s, c) ==
    IF s # <<>> /\ s[Len(s)] = c THEN rstrip_chr(SubSeq(s, 1, Len(s) - 1), c) ELSE s

strip_chr(s, c) == rstrip_chr(lstrip_chr(s, c), c)

\* the text of s with the quote character q and the backslash escaped
RECURSIVE Escaped(_, _)
Escaped(s, q) ==
    IF s = <<>> THEN <<>>
    ELSE (IF Head(s) \in {q, BACKSLASH} THEN << BACKSLASH, Head(s) >> ELSE << Head(s) >>)
         \o Escaped(Tail(s), q)

\* repr() of a str of printable characters: quoted with ' unless the text
\* holds a ' and no "
repr(s) ==
    LET q == IF (\E i \in DOMAIN s : s[i] = APOS) /\ (\A i \in DOMAIN s : s[i] # QUOTE)
             THEN QUOTE ELSE APOS
    IN  << q >> \o Escaped(s, q) \o << q >>

\* position of the last "@" of s, 0 when there is none
RECURSIVE LastAt(_, _)
LastAt(s, k) == IF k = 0 THEN 0 ELSE IF s[k] = "@" THEN k ELSE LastAt(s, k - 1)

\* email_address.split("@")[-1] if "@" in email_address else "mail.local"
DomainOf(addr) ==
    LET k == LastAt(addr, Len(addr))
    IN  IF k = 0 THEN <<"m", "a", "i", "l", ".", "l", "o", "c", "a", "l">>
        ELSE SubSeq(addr, k + 1, Len(addr))

\* uuid.uuid4(): the n-th value drawn
generate_message_id(addr, n) == [uuid |-> n, domain |-> DomainOf(addr)]

\* ------------------------------------------------------------ dates
\* datetime.isoformat(): the date part and the time-of-day part
isoformat(t) == <<t \div TicksPerDay, t % TicksPerDay>>
\* datetime.fromisoformat()
fromisoformat(s) == s[1] * TicksPerDay + s[2]
\* timedelta(days=d)
timedelta(d) == d * TicksPerDay

\* ------------------------------------------------------------ base64
PAD == 64          \* the "=" character; 0..63 are the alphabet

RECURSIVE b64encode(_)
b64encode(bytes) ==
    IF bytes = <<>> THEN <<>>
    ELSE IF Len(bytes) = 1 THEN
        << bytes[1] \div 4, (bytes[1] % 4) * 16, PAD, PAD >>
    ELSE IF Len(bytes) = 2 THEN
        << bytes[1] \div 4,
           (bytes[1] % 4) * 16 + bytes[2] \div 16,
           (bytes[2] % 16) * 4, PAD >>
    ELSE
        << bytes[1] \div 4,
           (bytes[1] % 4) * 16 + bytes[2] \div 16,
           (bytes[2] % 16) * 4 + bytes[3] \div 64,
           bytes[3] % 64 >> \o b64encode(SubSeq(bytes, 4, Len(bytes)))

\* number of leading characters of s that are not "="
RECURSIVE DataLen(_)
DataLen(s) == IF s = <<>> \/ Head(s) = PAD THEN 0 ELSE 1 + DataLen(Tail(s))

RECURSIVE DecodeData(_)
DecodeData(d) ==
    IF Len(d) < 2 THEN <<>>
    ELSE IF Len(d) = 2 THEN << d[1] * 4 + d[2] \div 16 >>
    ELSE IF Len(d) = 3 THEN
        << d[1] * 4 + d[2] \div 16, (d[2] % 16) * 16 + d[3] \div 4 >>
    ELSE
        << d[1] * 4 + d[2] \div 16,
           (d[2] % 16) * 16 + d[3] \div 4,
           (d[3] % 4) * 64 + d[4] >> \o DecodeData(SubSeq(d, 5, Len(d)))

\* base64.b64decode() of a string of alphabet characters and "=": the data
\* before the first "=" is decoded; a last quad that holds one character, or
\* too few "=" to complete the last quad, is an error
B64Ok(s) ==
    LET n == DataLen(s)
    IN  /\ (n % 4) # 1
        /\ ((n % 4) = 0 \/ (Len(s) - n) >= 4 - (n % 4))
b64decode(s) == DecodeData(SubSeq(s, 1, DataLen(s)))

\* struct.pack("<Q", filetime) for filetime = 116444736000000000 + t
FiletimePack(t) == << t % 256, 128, 62, 213, 222, 177, 157, 1 >>
\* uuid.uuid4().bytes of the n-th value drawn
GuidBytes(n) == [k \in 1..16 |-> (n + k) % 256]

FreshIndex(t, n) == b64encode(SubSeq(FiletimePack(t), 1, 6) \o GuidBytes(n))

NoParent == << -1 >>    \* parent_index is None

\* parent_index padded with "=" to a multiple of four characters: line 175-177
PadIndex(parent_index) ==
    LET pad == Len(parent_index) % 4
    IN  IF pad # 0 THEN parent_index \o [k \in 1..(4 - pad) |-> PAD]
        ELSE parent_index

\* generate_thread_index changed: the suffix of a reply is six bytes long
generate_thread_index_long(parent_index, t, n) ==
    IF parent_index = NoParent THEN FreshIndex(t, n)
    ELSE
        LET padded == PadIndex(parent_index)
        IN  IF B64Ok(padded)
            THEN b64encode(b64decode(padded) \o SubSeq(FiletimePack(t), 1, 6))
            ELSE FreshIndex(t, n)

\* generate_thread_index changed: a parent that cannot be decoded is
\* returned as it is
generate_thread_index_keeping(parent_index, t, n) ==
    IF parent_index = NoParent THEN FreshIndex(t, n)
    ELSE
        LET padded == PadIndex(parent_index)
        IN  IF B64Ok(padded)
            THEN b64encode(b64decode(padded) \o SubSeq(FiletimePack(t), 1, 5))
            ELSE parent_index

generate_thread_index(parent_index, t, n) ==
    IF parent_index = NoParent THEN FreshIndex(t, n)
    ELSE
        LET padded == PadIndex(parent_index)
        IN  IF B64Ok(padded)
            THEN b64encode(b64decode(padded) \o SubSeq(FiletimePack(t), 1, 5))
            ELSE FreshIndex(t, n)

\* ------------------------------------------------------------ thread topic
\* the prefixes build_message removes, in the order of its for loop: line 213
TopicPrefixes ==
    << << "R", "e", ":", " " >>, << "R", "E", ":", " " >>, << "r", "e", ":", " " >>,
       << "R", "e", ":" >>, << "R", "E", ":" >>, << "r", "e", ":" >> >>

\* while clean_subject.startswith(prefix):
\*     clean_subject = clean_subject[len(prefix):].strip()      line 214-215
RECURSIVE StripPrefix(_, _)
StripPrefix(s, prefix) ==
    IF startswith(s, prefix)
    THEN StripPrefix(strip(SubSeq(s, Len(prefix) + 1, Len(s))), prefix)
    ELSE s

\* the for loop of line 213-215 over the prefixes still to be tried
RECURSIVE StripEach(_, _)
StripEach(s, prefixes) ==
    IF prefixes = <<>> THEN s
    ELSE StripEach(StripPrefix(s, Head(prefixes)), Tail(prefixes))

\* the Thread-Topic build_message gives a reply: line 211-216
clean_subject(subject) == StripEach(subject, TopicPrefixes)

\* ------------------------------------------------------------ templates
\* A template is a sequence of tokens: literal text, a replacement field
\* "{key}", or an indexed replacement field "{key[k]}" (k counted from 1 here).
Lit(s) == [t |-> "lit", s |-> s, key |-> "", k |-> 0]
Field(key) == [t |-> "field", s |-> <<>>, key |-> key, k |-> 0]
Index(key, k) == [t |-> "index", s |-> <<>>, key |-> key, k |-> k]

\* the characters of the column name that a key stands for
KeyText(key) ==
    CASE key = "Name" -> << "N", "a", "m", "e" >>
      [] key = "Email" -> << "E", "m", "a", "i", "l" >>
      [] key = "Company" -> << "C", "o", "m", "p", "a", "n", "y" >>
      [] key = "followup_num" ->
             << "f", "o", "l", "l", "o", "w", "u", "p", "_", "n", "u", "m" >>
      [] key = "N'" -> << "N", APOS >>
      [] OTHER -> <<>>

\* An error of render_email_template: its kind and, for a missing
\* placeholder, the text the message puts between the braces.
NoErr == [kind |-> "", key |-> <<>>]
\* except KeyError as e: ... {str(e).strip(chr(39))}; str() of a KeyError is
\* repr() of the key
MissingPlaceholder(key) ==
    [kind |-> "missing placeholder", key |-> strip_chr(repr(KeyText(key)), APOS)]
RenderingError == [kind |-> "rendering error", key |-> <<>>]

\* str.format where a field whose key is in the context is left as it is
RECURSIVE format_unsubstituted(_, _)
format_unsubstituted(template, context) ==
    IF template = <<>> THEN [text |-> <<>>, err |-> NoErr]
    ELSE
        LET tok == Head(template)
            rest == format_unsubstituted(Tail(template), context)
        IN  IF tok.t = "lit" THEN
                [text |-> tok.s \o rest.text, err |-> rest.err]
            ELSE IF tok.key \notin DOMAIN context THEN
                [text |-> <<>>, err |-> MissingPlaceholder(tok.key)]
            ELSE
                [text |-> << "{" >> \o KeyText(tok.key) \o << "}" >> \o rest.text,
                 err |-> rest.err]

\* str.format(**context), left to right; the first field that cannot be
\* substituted raises
RECURSIVE format(_, _)
format(template, context) ==
    IF template = <<>> THEN [text |-> <<>>, err |-> NoErr]
    ELSE
        LET tok == Head(template)
            rest == format(Tail(template), context)
        IN  IF tok.t = "lit" THEN
                [text |-> tok.s \o rest.text, err |-> rest.err]
            ELSE IF tok.key \notin DOMAIN context THEN
                [text |-> <<>>, err |-> MissingPlaceholder(tok.key)]
            ELSE IF tok.t = "index" /\ tok.k > Len(context[tok.key]) THEN
                [text |-> <<>>, err |-> RenderingError]
            ELSE
                LET piece == IF tok.t = "index"
                             THEN << context[tok.key][tok.k] >>
                             ELSE context[tok.key]
                IN  [text |-> piece \o rest.text, err |-> rest.err]

render_email_template(template, context) ==
    LET r == format(template, context)
    IN  IF r.err = NoErr THEN r ELSE [text |-> <<>>, err |-> r.err]

\* str() of a small non-negative integer
Digits == << "0", "1", "2", "3", "4", "5", "6", "7", "8", "9" >>
str(n) == IF n < 10 THEN << Digits[n + 1] >>
          ELSE << Digits[((n \div 10) % 10) + 1], Digits[(n % 10) + 1] >>

\* ------------------------------------------------------------ throttle
\* apply_smart_delay changed: the tests are made in the order 10, 50, 100
apply_smart_delay_shortest(sent_count) ==
    IF sent_count > 0 THEN
        IF sent_count % 10 = 0 THEN 25
        ELSE IF sent_count % 50 = 0 THEN 50
        ELSE IF sent_count % 100 = 0 THEN 80
        ELSE 0
    ELSE 0

\* apply_smart_delay changed: without the last elif
apply_smart_delay_fifties(sent_count) ==
    IF sent_count > 0 THEN
        IF sent_count % 100 = 0 THEN 80
        ELSE IF sent_count % 50 = 0 THEN 50
        ELSE 0
    ELSE 0

\* apply_smart_delay: the pause in tenths of a time unit
apply_smart_delay(sent_count) ==
    IF sent_count > 0 THEN
        IF sent_count % 100 = 0 THEN 80
        ELSE IF sent_count % 50 = 0 THEN 50
        ELSE IF sent_count % 10 = 0 THEN 25
        ELSE 0
    ELSE 0

\* ------------------------------------------------------------ dict
\* A dict of recipients is a sequence of records with distinct "email"
\* fields, in insertion order.
Keys(d) == { d[k].email : k \in DOMAIN d }
Pos(d, e) == CHOOSE k \in DOMAIN d : d[k].email = e
Get(d, e) == d[Pos(d, e)]
\* d[e] = v : replaces in place, or appends
Put(d, e, v) == IF e \in Keys(d) THEN [d EXCEPT ![Pos(d, e)] = v]
                ELSE Append(d, v)


\* ------------------------------------------------------------ inputs
Names == {"A", "B"}                       \* campaign names
Sender == << "m", "e", "@", "x" >>        \* email_address of the operator
Al == [Name |-> << "A", "l" >>, Email |-> << "a", "@", "x" >>]
Bob == [Name |-> << "B", "o", "b", " " >>, Email |-> << "b", "@", "x" >>]
Rows == {Al, Bob}
\* load_recipients_file: the columns are Name and Email, no Email is empty
DataFrames == UNION { [1..n -> Rows] : n \in 0..MaxRows }

Hi == << Lit(<< "H", "i", " " >>), Field("Name") >>         \* "Hi {Name}"
Third == << Index("Name", 3) >>                             \* "{Name[2]}"
Company == << Lit(<< "@" >>), Field("Company") >>           \* "@{Company}"
Nth == << Lit(<< "#" >>), Field("followup_num") >>          \* "#{followup_num}"
\* << subject template, body template >> of a launch and of a follow-up batch
LaunchTemplates == { << Hi, Hi >>, << Third, Hi >>, << Hi, Company >> }
FollowupTemplates == { << Hi, Nth >>, << Company, Third >> }

\* ------------------------------------------------------------ records
\* the recipient record written by send_bulk_emails after a successful send
LaunchRecord(email, name, msg_id, subject, ti, t1, t2) ==
    [ email |-> email, name |-> name, message_id |-> msg_id,
      subject |-> subject, thread_index |-> ti, followups_sent |-> 0,
      last_sent_date |-> isoformat(t1),
      next_followup_date |-> isoformat(t2 + timedelta(LaunchDelayDays)) ]

\* FollowupRecord changed: message_id keeps the identifier of the parent
FollowupRecord_stale_id(rec, followup_num, new_msg_id, ti, now, interval_days) ==
    [ rec EXCEPT !.followups_sent = followup_num,
                 !.thread_index = ti,
                 !.last_sent_date = isoformat(now),
                 !.next_followup_date = isoformat(now + timedelta(interval_days)) ]

\* FollowupRecord changed: the transmitted subject becomes the recorded one
FollowupRecord_resubject(rec, followup_num, new_msg_id, ti, now, interval_days) ==
    [ rec EXCEPT !.followups_sent = followup_num,
                 !.message_id = new_msg_id,
                 !.subject = << "R", "e", ":", " " >> \o @,
                 !.thread_index = ti,
                 !.last_sent_date = isoformat(now),
                 !.next_followup_date = isoformat(now + timedelta(interval_days)) ]

\* FollowupRecord changed: the last planned follow-up is not counted
FollowupRecord_uncounted(rec, followup_num, new_msg_id, ti, now, interval_days) ==
    [ rec EXCEPT !.followups_sent = IF followup_num >= PlannedFollowups
                                    THEN @ ELSE followup_num,
                 !.message_id = new_msg_id,
                 !.thread_index = ti,
                 !.last_sent_date = isoformat(now),
                 !.next_followup_date = isoformat(now + timedelta(interval_days)) ]

\* FollowupRecord changed: the next follow-up is due at once
FollowupRecord_immediate(rec, followup_num, new_msg_id, ti, now, interval_days) ==
    [ rec EXCEPT !.followups_sent = followup_num,
                 !.message_id = new_msg_id,
                 !.thread_index = ti,
                 !.last_sent_date = isoformat(now),
                 !.next_followup_date = isoformat(now) ]

\* FollowupRecord changed: the index of the new message is not stored
FollowupRecord_unindexed(rec, followup_num, new_msg_id, ti, now, interval_days) ==
    [ rec EXCEPT !.followups_sent = followup_num,
                 !.message_id = new_msg_id,
                 !.last_sent_date = isoformat(now),
                 !.next_followup_date = isoformat(now + timedelta(interval_days)) ]

\* the five assignments of send_followup_emails after a successful send
FollowupRecord(rec, followup_num, new_msg_id, ti, now, interval_days) ==
    [ rec EXCEPT !.followups_sent = followup_num,
                 !.message_id = new_msg_id,
                 !.thread_index = ti,
                 !.last_sent_date = isoformat(now),
                 !.next_followup_date = isoformat(now + timedelta(interval_days)) ]

\* the campaign record written at the end of send_bulk_emails
CampaignRecord(t, subject_template, body_template, campaign_recipients) ==
    [ created_at |-> isoformat(t), sender_email |-> Sender,
      subject_template |-> subject_template, body_template |-> body_template,
      total_followups_planned |-> PlannedFollowups,
      followup_interval_days |-> IntervalDays,
      recipients |-> campaign_recipients ]

EmptyDb == [n \in {} |-> 0]
\* db[name] = campaign
DbPut(db0, name, campaign) ==
    [n \in DOMAIN db0 \cup {name} |-> IF n = name THEN campaign ELSE db0[n]]

\* ------------------------------------------------------------ state
VARIABLES
    db,           \* campaign_db.json: campaign name -> campaign record
    total_sent,   \* total_emails_sent.json
    clock,        \* datetime.now() / time.time()
    uuids,        \* number of uuid4() values drawn so far
    batches,      \* number of batches started so far
    b             \* per process: the running (or last) batch, its locals

vars == << db, total_sent, clock, uuids, batches, b >>

NoId == [uuid |-> 0, domain |-> <<>>]     \* no message identifier

\* build_message: the headers of the message; ti is the value
\* generate_thread_index returned for it (line 209, 219): line 192-219
build_message(to_addr, subject, msg_id, in_reply_to, references, ti) ==
    IF in_reply_to # NoId THEN
        [ to |-> to_addr, msg_id |-> msg_id, subject |-> subject,
          in_reply_to |-> in_reply_to,
          references |-> IF references # NoId THEN references ELSE in_reply_to,
          thread_index |-> ti, thread_topic |-> clean_subject(subject) ]
    ELSE
        [ to |-> to_addr, msg_id |-> msg_id, subject |-> subject,
          in_reply_to |-> NoId, references |-> NoId,
          thread_index |-> ti, thread_topic |-> subject ]

NoReturn == [sent |-> 0, failed |-> 0, results |-> <<>>, raised |-> ""]

\* the RuntimeError of a batch, as main reports it: sent = failed = 0
Raised(msg) == [NoReturn EXCEPT !.raised = msg]
AuthenticationFailed == "SMTP authentication failed"
NotFound == "Campaign not found"

\* a process outside any batch
IdleBatch ==
    [ pc |-> "idle", kind |-> "", campaign_name |-> "",
      df |-> <<>>, subject_template |-> <<>>, body_template |-> <<>>,
      force_send_now |-> FALSE,
      db |-> EmptyDb,                 \* the db loaded by the batch
      recipients |-> <<>>,            \* campaign_recipients / recipients
      due |-> <<>>,                   \* keys of due_recipients, in order
      max_followups |-> 0, interval_days |-> 0, now |-> 0,
      i |-> 1, results |-> <<>>, sent_count |-> 0, failed_count |-> 0,
      server |-> "none",              \* none, open, closed
      outbox |-> <<>>,                \* what server.sendmail accepted
      attempts |-> <<>>,              \* every server.sendmail call
      saved |-> FALSE,                \* save_campaign_db was called
      pauses |-> <<>>,                \* the time.sleep calls
      ret |-> NoReturn,
      db0 |-> EmptyDb, total0 |-> 0 ] \* store and counter when it started

\* ------------------------------------------------------------ earlier runs
\* The store left by an earlier run of the program: campaign "A" launched
\* for Al and Bob at tick 0 and followed up at tick 0, Al four times and
\* Bob five times.
SeedLaunch(row, n) ==
    LaunchRecord(strip(row.Email), strip(row.Name),
                 generate_message_id(Sender, n),
                 render_email_template(Hi, row).text,
                 generate_thread_index(NoParent, 0, n + 1), 0, 0)

RECURSIVE SeedFollow(_, _, _)
SeedFollow(rec, k, n) ==
    IF k = 0 THEN rec
    ELSE LET prev == SeedFollow(rec, k - 1, n)
         IN  FollowupRecord(prev, prev.followups_sent + 1,
                            generate_message_id(Sender, n + 2 * (k - 1)),
                            generate_thread_index(prev.thread_index, 0, 0),
                            0, IntervalDays)

SeedDb ==
    DbPut(EmptyDb, "A",
          CampaignRecord(0, Hi, Hi,
                         << SeedFollow(SeedLaunch(Al, 1), PlannedFollowups - 1, 5),
                            SeedFollow(SeedLaunch(Bob, 3), PlannedFollowups, 6) >>))
SeedUuids == 2 * PlannedFollowups + 4
SeedTotalSent == 2 * PlannedFollowups + 1

Init ==
    /\ \/ db = EmptyDb /\ total_sent = 0 /\ uuids = 0
       \/ db = SeedDb /\ total_sent = SeedTotalSent /\ uuids = SeedUuids
    /\ clock = 0
    /\ batches = 0
    /\ b = [p \in Procs |-> IdleBatch]

\* ------------------------------------------------------------ store files
\* campaign_db.json exists and cannot be read as JSON
CorruptFile == [corrupt |-> TRUE]

\* load_campaign_db without the try of line 67-71
load_campaign_db_unchecked == db

\* line 65-72: {} when the file is missing (db = EmptyDb) or open/json.load
\* raises
load_campaign_db == IF db = CorruptFile THEN EmptyDb ELSE db
load_total_sent_count == total_sent

\* ------------------------------------------------------------ helpers
Result(name, email, status, message) ==
    [Name |-> name, Email |-> email, Status |-> status, Message |-> message]

\* main is ready for the next button: no batch is running in p (after a
\* kill the program is started again)
CanStart(p) == b[p].pc \in {"idle", "done", "killed"} /\ batches < MaxBatches

Begin(p, kind, name, st, bt) ==
    [ IdleBatch EXCEPT !.kind = kind, !.campaign_name = name,
                       !.subject_template = st, !.body_template = bt,
                       !.db0 = db, !.total0 = total_sent ]

\* the clock advances
Tick ==
    /\ clock < MaxClock
    /\ clock' = clock + 1
    /\ UNCHANGED << db, total_sent, uuids, batches, b >>

\* ------------------------------------------------------------ launch
\* send_bulk_emails with an empty recipient list: line 276-278
LaunchEmpty(p) ==
    /\ CanStart(p)
    /\ \E name \in Names, tp \in LaunchTemplates :
         b' = [b EXCEPT ![p] =
                 [ Begin(p, "launch", name, tp[1], tp[2]) EXCEPT
                     !.pc = "returned" ]]
    /\ batches' = batches + 1
    /\ UNCHANGED << db, total_sent, clock, uuids >>

\* send_bulk_emails with a campaign name that is in the store: line 280-283
LaunchRejected(p) ==
    /\ CanStart(p)
    /\ \E df \in DataFrames \ {<<>>}, name \in Names, tp \in LaunchTemplates :
         /\ name \in DOMAIN load_campaign_db
         /\ b' = [b EXCEPT ![p] =
                 [ Begin(p, "launch", name, tp[1], tp[2]) EXCEPT
                     !.df = df, !.db = load_campaign_db,
                     !.pc = "returned" ]]
    /\ batches' = batches + 1
    /\ UNCHANGED << db, total_sent, clock, uuids >>

\* LaunchAccepted changed: the campaign name is not looked up in the store
LaunchAccepted_unchecked(p) ==
    /\ CanStart(p)
    /\ \E df \in DataFrames \ {<<>>}, name \in Names, tp \in LaunchTemplates :
         /\ b' = [b EXCEPT ![p] =
                 [ Begin(p, "launch", name, tp[1], tp[2]) EXCEPT
                     !.df = df, !.db = load_campaign_db,
                     !.pc = "connect" ]]
    /\ batches' = batches + 1
    /\ UNCHANGED << db, total_sent, clock, uuids >>

\* send_bulk_emails with a new campaign name: line 276-288
LaunchAccepted(p) ==
    /\ CanStart(p)
    /\ \E df \in DataFrames \ {<<>>}, name \in Names, tp \in LaunchTemplates :
         /\ name \notin DOMAIN load_campaign_db
         /\ b' = [b EXCEPT ![p] =
                 [ Begin(p, "launch", name, tp[1], tp[2]) EXCEPT
                     !.df = df, !.db = load_campaign_db,
                     !.pc = "connect" ]]
    /\ batches' = batches + 1
    /\ UNCHANGED << db, total_sent, clock, uuids >>

\* ------------------------------------------------------------ mail session
\* ConnectOk changed: the loop starts without a session
ConnectOk_sessionless(p) ==
    /\ b[p].pc = "connect"
    /\ b' = [b EXCEPT ![p].pc = "loop"]
    /\ UNCHANGED << db, total_sent, clock, uuids, batches >>

\* create_smtp_connection succeeds
ConnectOk(p) ==
    /\ b[p].pc = "connect"
    /\ b' = [b EXCEPT ![p].server = "open", ![p].pc = "loop"]
    /\ UNCHANGED << db, total_sent, clock, uuids, batches >>

\* ConnectRefused changed: a launch has written its campaign record before
\* it connects
ConnectRefused_saving(p) ==
    /\ b[p].pc = "connect"
    /\ b' = [b EXCEPT ![p].pc = "returned",
                      ![p].ret = Raised(AuthenticationFailed)]
    /\ db' = IF b[p].kind = "launch"
             THEN DbPut(db, b[p].campaign_name,
                        CampaignRecord(clock, b[p].subject_template,
                                       b[p].body_template, <<>>))
             ELSE db
    /\ UNCHANGED << total_sent, clock, uuids, batches >>

\* smtplib.SMTP / SMTP_SSL / starttls raises: no session; the batch raises
\* RuntimeError, which main reports and turns into sent = failed = 0
ConnectRefused(p) ==
    /\ b[p].pc = "connect"
    /\ b' = [b EXCEPT ![p].pc = "returned",
                      ![p].ret = Raised(AuthenticationFailed)]
    /\ UNCHANGED << db, total_sent, clock, uuids, batches >>

\* server.login raises after the session was opened: create_smtp_connection
\* does not close it; the batch raises RuntimeError
AuthFailed(p) ==
    /\ b[p].pc = "connect"
    /\ b' = [b EXCEPT ![p].pc = "returned", ![p].server = "open",
                      ![p].ret = Raised(AuthenticationFailed)]
    /\ UNCHANGED << db, total_sent, clock, uuids, batches >>

\* the end of one pass of either loop, after the try/except around
\* server.sendmail: the result row, the throttle pause, the next index
AfterSubmit(s, t, name, email, status, msg) ==
    LET d == apply_smart_delay(t.sent_count)
    IN  [ t EXCEPT
            !.results = Append(@, Result(name, email, status, msg)),
            !.attempts = Append(@, [i |-> s.i, to |-> email, ok |-> status = "Sent"]),
            !.pauses = IF d > 0 THEN Append(@, [i |-> s.i, n |-> t.sent_count, d |-> d])
                       ELSE @,
            !.i = @ + 1 ]

\* RenderFailed changed: the failure is not counted
RenderFailed_uncounted(s, name, email, err) ==
    [ s EXCEPT !.results = Append(@, Result(name, email, "Failed", err.kind)),
               !.i = @ + 1 ]

\* a render failure in either loop: the result row, then "continue"
RenderFailed(s, name, email, err) ==
    [ s EXCEPT !.results = Append(@, Result(name, email, "Failed", err.kind)),
               !.failed_count = @ + 1,
               !.i = @ + 1 ]

\* send_bulk_emails, server.sendmail returned: line 325-334
launch_sent(s, email, name, msg_id, subject, ti, t1, t2) ==
    [ s EXCEPT
        !.sent_count = @ + 1,
        !.outbox = Append(@, build_message(email, subject, msg_id, NoId, NoId, ti)),
        !.recipients = Put(@, email,
                           LaunchRecord(email, name, msg_id, subject, ti, t1, t2)) ]

\* launch_error changed: the recipient is recorded although the send failed
launch_error_recording(s, email, name, msg_id, subject, ti, t1) ==
    [ s EXCEPT !.failed_count = @ + 1,
               !.recipients = Put(@, email,
                                  LaunchRecord(email, name, msg_id, subject, ti, t1, t1)) ]

\* launch_error changed: a failed send ends the loop
launch_error_breaking(s, email, name, msg_id, subject, ti, t1) ==
    [ s EXCEPT !.failed_count = @ + 1, !.i = Len(s.df) ]

\* send_bulk_emails, server.sendmail raised: line 335-337
launch_error(s, email, name, msg_id, subject, ti, t1) ==
    [ s EXCEPT !.failed_count = @ + 1 ]

\* one pass of the loop of send_bulk_emails: line 297-344
LaunchStep(p) ==
    LET s == b[p]
        row == s.df[s.i]
        name == strip(row.Name)
        recipient_email == strip(row.Email)
        context == row
        subject == render_email_template(s.subject_template, context)
        body == render_email_template(s.body_template, context)
        msg_id == generate_message_id(Sender, uuids + 1)
        ti == generate_thread_index(NoParent, clock, uuids + 2)
    IN
    /\ s.pc = "loop" /\ s.kind = "launch" /\ s.i <= Len(s.df)
    /\ IF subject.err # NoErr THEN
            /\ b' = [b EXCEPT ![p] = RenderFailed(s, name, recipient_email, subject.err)]
            /\ UNCHANGED << clock, uuids >>
       ELSE IF body.err # NoErr THEN
            /\ b' = [b EXCEPT ![p] = RenderFailed(s, name, recipient_email, body.err)]
            /\ UNCHANGED << clock, uuids >>
       ELSE
            /\ uuids' = uuids + 2
            /\ \/ \* server.sendmail returns; datetime.now() is then read twice
                  \E t2 \in { t \in {clock, clock + 1} : t <= MaxClock } :
                    /\ clock' = t2
                    /\ b' = [b EXCEPT ![p] =
                         AfterSubmit(s, launch_sent(s, recipient_email, name, msg_id,
                                                    subject.text, ti, clock, t2),
                                     name, recipient_email, "Sent", "Initial email sent.")]
               \/ \* server.sendmail raises
                  /\ b' = [b EXCEPT ![p] =
                         AfterSubmit(s, launch_error(s, recipient_email, name, msg_id,
                                                     subject.text, ti, clock),
                                     name, recipient_email, "Failed", "SMTP error")]
                  /\ UNCHANGED clock
    /\ UNCHANGED << db, total_sent, batches >>

\* LaunchFinish changed: a launch that sent nothing writes no campaign
LaunchFinish_unsent(p) ==
    LET s == b[p]
        db1 == IF s.sent_count = 0 THEN s.db
               ELSE DbPut(s.db, s.campaign_name,
                          CampaignRecord(clock, s.subject_template, s.body_template,
                                         s.recipients))
    IN
    /\ s.pc = "loop" /\ s.kind = "launch" /\ s.i > Len(s.df)
    /\ db' = db1
    /\ b' = [b EXCEPT ![p].server = "closed", ![p].db = db1, ![p].pc = "returned",
                      ![p].saved = TRUE,
                      ![p].ret = [sent |-> s.sent_count, failed |-> s.failed_count,
                                  results |-> s.results, raised |-> ""]]
    /\ UNCHANGED << total_sent, clock, uuids, batches >>

\* the end of send_bulk_emails: line 345-361
LaunchFinish(p) ==
    LET s == b[p]
        db1 == DbPut(s.db, s.campaign_name,
                     CampaignRecord(clock, s.subject_template, s.body_template,
                                    s.recipients))
    IN
    /\ s.pc = "loop" /\ s.kind = "launch" /\ s.i > Len(s.df)
    /\ db' = db1                                       \* save_campaign_db(db)
    /\ b' = [b EXCEPT ![p].server = "closed", ![p].db = db1, ![p].pc = "returned",
                      ![p].saved = TRUE,
                      ![p].ret = [sent |-> s.sent_count, failed |-> s.failed_count,
                                  results |-> s.results, raised |-> ""]]
    /\ UNCHANGED << total_sent, clock, uuids, batches >>

\* MainAfter changed: the counter is set to the count of the batch
MainAfter_overwriting(p) ==
    /\ b[p].pc = "returned"
    /\ total_sent' = IF b[p].ret.sent > 0 THEN b[p].ret.sent ELSE total_sent
    /\ b' = [b EXCEPT ![p].pc = "done"]
    /\ UNCHANGED << db, clock, uuids, batches >>

\* main, after the batch returned or raised: line 899-903, 1015-1019, 1113-1117
MainAfter(p) ==
    /\ b[p].pc = "returned"
    /\ total_sent' = IF b[p].ret.sent > 0
                     THEN load_total_sent_count + b[p].ret.sent
                     ELSE total_sent
    /\ b' = [b EXCEPT ![p].pc = "done"]
    /\ UNCHANGED << db, clock, uuids, batches >>

\* ------------------------------------------------------------ follow-up
\* DueKeys changed: followups_sent <= max_followups
RECURSIVE DueKeys_inclusive(_, _, _, _)
DueKeys_inclusive(recipients, max_followups, force_send_now, now) ==
    IF recipients = <<>> THEN <<>>
    ELSE
        LET data == Head(recipients)
        IN  (IF /\ data.followups_sent <= max_followups
                /\ (force_send_now \/ fromisoformat(data.next_followup_date) <= now)
             THEN << data.email >> ELSE <<>>)
            \o DueKeys_inclusive(Tail(recipients), max_followups, force_send_now, now)

\* DueKeys changed: force_send_now overrides the whole condition
RECURSIVE DueKeys_forcing(_, _, _, _)
DueKeys_forcing(recipients, max_followups, force_send_now, now) ==
    IF recipients = <<>> THEN <<>>
    ELSE
        LET data == Head(recipients)
        IN  (IF \/ force_send_now
                \/ /\ data.followups_sent < max_followups
                   /\ fromisoformat(data.next_followup_date) <= now
             THEN << data.email >> ELSE <<>>)
            \o DueKeys_forcing(Tail(recipients), max_followups, force_send_now, now)

\* DueKeys changed: force_send_now is not consulted
RECURSIVE DueKeys_unforced(_, _, _, _)
DueKeys_unforced(recipients, max_followups, force_send_now, now) ==
    IF recipients = <<>> THEN <<>>
    ELSE
        LET data == Head(recipients)
        IN  (IF /\ data.followups_sent < max_followups
                /\ fromisoformat(data.next_followup_date) <= now
             THEN << data.email >> ELSE <<>>)
            \o DueKeys_unforced(Tail(recipients), max_followups, force_send_now, now)

\* due_recipients of send_followup_emails, as its keys in dict order: line 383-387
RECURSIVE DueKeys(_, _, _, _)
DueKeys(recipients, max_followups, force_send_now, now) ==
    IF recipients = <<>> THEN <<>>
    ELSE
        LET data == Head(recipients)
        IN  (IF /\ data.followups_sent < max_followups
                /\ (force_send_now \/ fromisoformat(data.next_followup_date) <= now)
             THEN << data.email >> ELSE <<>>)
            \o DueKeys(Tail(recipients), max_followups, force_send_now, now)

Re == << "R", "e", ":", " " >>

\* send_followup_emails for a campaign that is not in the store: line 373-375
FollowupNotFound(p) ==
    /\ CanStart(p)
    /\ \E name \in Names, tp \in FollowupTemplates, force \in BOOLEAN :
         /\ name \notin DOMAIN load_campaign_db
         /\ b' = [b EXCEPT ![p] =
                 [ Begin(p, "followup", name, tp[1], tp[2]) EXCEPT
                     !.force_send_now = force, !.db = load_campaign_db,
                     !.pc = "returned",
                     !.ret = Raised(NotFound) ]]
    /\ batches' = batches + 1
    /\ UNCHANGED << db, total_sent, clock, uuids >>

\* the locals of send_followup_emails after line 373-387
FollowupLocals(p, name, st, bt, force) ==
    LET db1 == load_campaign_db
        campaign == db1[name]
    IN  [ Begin(p, "followup", name, st, bt) EXCEPT
            !.force_send_now = force, !.db = db1,
            !.recipients = campaign.recipients,
            !.max_followups = campaign.total_followups_planned,
            !.interval_days = campaign.followup_interval_days,
            !.now = clock,
            !.due = DueKeys(campaign.recipients, campaign.total_followups_planned,
                            force, clock) ]

\* FollowupNothingDue changed: the batch goes on to connect
FollowupNothingDue_connecting(p) ==
    /\ CanStart(p)
    /\ \E name \in DOMAIN load_campaign_db, tp \in FollowupTemplates,
          force \in BOOLEAN :
         LET s == FollowupLocals(p, name, tp[1], tp[2], force)
         IN  /\ s.due = <<>>
             /\ b' = [b EXCEPT ![p] = [s EXCEPT !.pc = "connect"]]
    /\ batches' = batches + 1
    /\ UNCHANGED << db, total_sent, clock, uuids >>

\* send_followup_emails with nobody due: line 389-391
FollowupNothingDue(p) ==
    /\ CanStart(p)
    /\ \E name \in DOMAIN load_campaign_db, tp \in FollowupTemplates,
          force \in BOOLEAN :
         LET s == FollowupLocals(p, name, tp[1], tp[2], force)
         IN  /\ s.due = <<>>
             /\ b' = [b EXCEPT ![p] = [s EXCEPT !.pc = "returned"]]
    /\ batches' = batches + 1
    /\ UNCHANGED << db, total_sent, clock, uuids >>

\* send_followup_emails with somebody due: line 389-397
FollowupAccepted(p) ==
    /\ CanStart(p)
    /\ \E name \in DOMAIN load_campaign_db, tp \in FollowupTemplates,
          force \in BOOLEAN :
         LET s == FollowupLocals(p, name, tp[1], tp[2], force)
         IN  /\ s.due # <<>>
             /\ b' = [b EXCEPT ![p] = [s EXCEPT !.pc = "connect"]]
    /\ batches' = batches + 1
    /\ UNCHANGED << db, total_sent, clock, uuids >>

\* send_followup_emails, server.sendmail returned: line 435-442
followup_sent(s, email, data, followup_num, new_msg_id, subject, ti) ==
    [ s EXCEPT
        !.sent_count = @ + 1,
        !.outbox = Append(@, build_message(email, subject, new_msg_id,
                                           data.message_id, data.message_id, ti)),
        !.recipients = Put(@, email,
                           FollowupRecord(data, followup_num, new_msg_id, ti,
                                          s.now, s.interval_days)) ]

\* followup_error changed: the attempt is counted as a follow-up
followup_error_counting(s, email, data, followup_num, new_msg_id, ti) ==
    [ s EXCEPT !.failed_count = @ + 1,
               !.recipients = Put(@, email,
                                  [data EXCEPT !.followups_sent = followup_num]) ]

\* followup_error changed: the date of the last send is set although the
\* send failed
followup_error_dating(s, email, data, followup_num, new_msg_id, ti) ==
    [ s EXCEPT !.failed_count = @ + 1,
               !.recipients = Put(@, email,
                                  [data EXCEPT !.last_sent_date = isoformat(s.now + 1)]) ]

\* followup_error changed: the identifier of the message that was not
\* accepted becomes the recipient's message_id
followup_error_advancing(s, email, data, followup_num, new_msg_id, ti) ==
    [ s EXCEPT !.failed_count = @ + 1,
               !.recipients = Put(@, email, [data EXCEPT !.message_id = new_msg_id]) ]

\* send_followup_emails, server.sendmail raised: line 443-445
followup_error(s, email, data, followup_num, new_msg_id, ti) ==
    [ s EXCEPT !.failed_count = @ + 1 ]

\* the subject send_followup_emails is left with after rendering the
\* subject template: line 411-414 (build_message is not given it: line 426)
followup_subject(rendered, original_subject) ==
    IF rendered.err # NoErr THEN Re \o original_subject ELSE rendered.text

\* followup_render_error changed: an error of the subject template fails
\* the recipient as well
followup_render_error_either(subject, body) ==
    IF subject.err # NoErr THEN subject.err ELSE body.err

\* the render error that fails a recipient of send_followup_emails: that
\* of the body template only, line 412-420
followup_render_error(subject, body) ==
    body.err

\* one pass of the loop of send_followup_emails: line 405-452
FollowupStep(p) ==
    LET s == b[p]
        recipient_email == s.due[s.i]
        data == Get(s.recipients, recipient_email)
        name == data.name
        original_subject == data.subject
        followup_num == data.followups_sent + 1
        context == [Name |-> name, Email |-> recipient_email,
                    followup_num |-> str(followup_num)]
        rendered == render_email_template(s.subject_template, context)
        subject == followup_subject(rendered, original_subject)
        body == render_email_template(s.body_template, context)
        err == followup_render_error(rendered, body)
        new_msg_id == generate_message_id(Sender, uuids + 1)
        original_thread_index == data.thread_index
        ti == generate_thread_index(original_thread_index, clock, uuids + 2)
        fresh == ti = FreshIndex(clock, uuids + 2)
    IN
    /\ s.pc = "loop" /\ s.kind = "followup" /\ s.i <= Len(s.due)
    /\ IF err # NoErr THEN
            /\ b' = [b EXCEPT ![p] = RenderFailed(s, name, recipient_email, err)]
            /\ UNCHANGED uuids
       ELSE
            /\ uuids' = IF fresh THEN uuids + 2 ELSE uuids + 1
            /\ \/ \* server.sendmail returns
                  b' = [b EXCEPT ![p] =
                         AfterSubmit(s, followup_sent(s, recipient_email, data, followup_num,
                                                      new_msg_id, Re \o original_subject, ti),
                                     name, recipient_email, "Sent", "Follow-up sent.")]
               \/ \* server.sendmail raises
                  b' = [b EXCEPT ![p] =
                         AfterSubmit(s, followup_error(s, recipient_email, data, followup_num,
                                                       new_msg_id, ti),
                                     name, recipient_email, "Failed", "SMTP error")]
    /\ UNCHANGED << db, total_sent, clock, batches >>

\* FollowupFinish changed: the campaign is stamped with the time of the save
FollowupFinish_stamping(p) ==
    LET s == b[p]
        db1 == [s.db EXCEPT ![s.campaign_name].recipients = s.recipients,
                            ![s.campaign_name].created_at = isoformat(clock)]
    IN
    /\ s.pc = "loop" /\ s.kind = "followup" /\ s.i > Len(s.due)
    /\ db' = db1
    /\ b' = [b EXCEPT ![p].server = "closed", ![p].db = db1, ![p].pc = "returned",
                      ![p].saved = TRUE,
                      ![p].ret = [sent |-> s.sent_count, failed |-> s.failed_count,
                                  results |-> s.results, raised |-> ""]]
    /\ UNCHANGED << total_sent, clock, uuids, batches >>

\* the end of send_followup_emails: line 453-461
FollowupFinish(p) ==
    LET s == b[p]
        db1 == [s.db EXCEPT ![s.campaign_name].recipients = s.recipients]
    IN
    /\ s.pc = "loop" /\ s.kind = "followup" /\ s.i > Len(s.due)
    /\ db' = db1                                       \* save_campaign_db(db)
    /\ b' = [b EXCEPT ![p].server = "closed", ![p].db = db1, ![p].pc = "returned",
                      ![p].saved = TRUE,
                      ![p].ret = [sent |-> s.sent_count, failed |-> s.failed_count,
                                  results |-> s.results, raised |-> ""]]
    /\ UNCHANGED << total_sent, clock, uuids, batches >>

\* ------------------------------------------------------------ scheduler view
\* main, tab 2: line 938-942
due2(recs2, max_fu2, now2) ==
    { recs2[k].email : k \in { j \in DOMAIN recs2 :
        /\ recs2[j].followups_sent < max_fu2
        /\ fromisoformat(recs2[j].next_followup_date) <= now2 } }
pending2(recs2, max_fu2, now2) ==
    { recs2[k].email : k \in { j \in DOMAIN recs2 :
        /\ recs2[j].followups_sent < max_fu2
        /\ fromisoformat(recs2[j].next_followup_date) > now2 } }
completed2(recs2, max_fu2) ==
    { recs2[k].email : k \in { j \in DOMAIN recs2 :
        recs2[j].followups_sent >= max_fu2 } }

\* ------------------------------------------------------------ specification
\* The program is run by one operator in one process (spec.md section 1):
\* every batch runs in process 1, one after another.
Worker == CHOOSE p \in Procs : \A q \in Procs : p <= q

Next ==
    \/ Tick
    \/ LaunchEmpty(Worker)
    \/ LaunchRejected(Worker)
    \/ LaunchAccepted(Worker)
    \/ ConnectOk(Worker)
    \/ ConnectRefused(Worker)
    \/ AuthFailed(Worker)
    \/ LaunchStep(Worker)
    \/ LaunchFinish(Worker)
    \/ FollowupNotFound(Worker)
    \/ FollowupNothingDue(Worker)
    \/ FollowupAccepted(Worker)
    \/ FollowupStep(Worker)
    \/ FollowupFinish(Worker)
    \/ MainAfter(Worker)

Spec == Init /\ [][Next]_vars

TypeOK ==
    /\ clock \in 0..MaxClock
    /\ batches \in 0..MaxBatches
    /\ \A p \in Procs :
         b[p].pc \in {"idle", "connect", "loop", "returned", "done", "killed",
                      "throttle", "throttled"}

\* ------------------------------------------------------------ hard interrupt
\* the process is killed while a batch is running or before main has
\* handled its return: nothing more of the batch is executed, neither the
\* finally of line 345-349 nor save_campaign_db of line 360. The locals
\* of the batch are kept for reference.
Kill(p) ==
    /\ b[p].pc \in {"connect", "loop", "returned"}
    /\ b' = [b EXCEPT ![p].pc = "killed"]
    /\ UNCHANGED << db, total_sent, clock, uuids, batches >>

InterruptNext == Next \/ Kill(Worker)

SpecInterrupt == Init /\ [][InterruptNext]_vars

\* ------------------------------------------------------------ overlapping batches
\* Two batches run at the same time on the same store file (two browser
\* sessions of the app, or two processes): every step of either batch may
\* come between two steps of the other. load_campaign_db (line 65-72) and
\* save_campaign_db (line 75-77) take no lock. The inputs are one-row lists
\* and templates that render.
OverlapInput(p) ==
    /\ b[p].df \in { <<>> } \cup { << r >> : r \in Rows }
    /\ b[p].subject_template = Hi
    /\ b[p].body_template \in { Hi, Nth }

OverlapNext ==
    \E p \in Procs :
        \/ LaunchEmpty(p) /\ OverlapInput(p)'
        \/ LaunchRejected(p) /\ OverlapInput(p)'
        \/ LaunchAccepted(p) /\ OverlapInput(p)'
        \/ FollowupNotFound(p) /\ OverlapInput(p)'
        \/ FollowupNothingDue(p) /\ OverlapInput(p)'
        \/ FollowupAccepted(p) /\ OverlapInput(p)'
        \/ ConnectOk(p)
        \/ ConnectRefused(p)
        \/ AuthFailed(p)
        \/ LaunchStep(p)
        \/ LaunchFinish(p)
        \/ FollowupStep(p)
        \/ FollowupFinish(p)
        \/ MainAfter(p)

SpecOverlap == Init /\ [][OverlapNext]_vars

\* ------------------------------------------------------------ a long launch
\* The first count at which apply_smart_delay sleeps (line 142).
FirstPause == 10

\* A recipient list one row longer than FirstPause.
LongFrame == [ k \in 1..(FirstPause + 1) |-> IF k % 2 = 1 THEN Al ELSE Bob ]

\* the first k passes of the loop of send_bulk_emails on state s, every
\* server.sendmail returning at tick 0: line 297-344
RECURSIVE LaunchPasses(_, _)
LaunchPasses(s, k) ==
    IF k = 0 THEN s
    ELSE LET t == LaunchPasses(s, k - 1)
             row == t.df[t.i]
             name == strip(row.Name)
             recipient_email == strip(row.Email)
             subject == render_email_template(t.subject_template, row)
             msg_id == generate_message_id(Sender, 2 * (k - 1) + 1)
             ti == generate_thread_index(NoParent, 0, 2 * (k - 1) + 2)
         IN  AfterSubmit(t, launch_sent(t, recipient_email, name, msg_id,
                                        subject.text, ti, 0, 0),
                         name, recipient_email, "Sent", "Initial email sent.")

\* The program was started with an empty store and is in the loop of its
\* first batch, the launch of LongFrame under "A"; FirstPause - 1 rows have
\* been sent.
LongInit ==
    /\ db = EmptyDb /\ total_sent = 0 /\ clock = 0
    /\ uuids = 2 * (FirstPause - 1)
    /\ batches = 1
    /\ b = [ p \in Procs |->
             IF p = Worker
             THEN LaunchPasses([ IdleBatch EXCEPT
                                   !.kind = "launch", !.campaign_name = "A",
                                   !.subject_template = Hi, !.body_template = Hi,
                                   !.df = LongFrame, !.pc = "loop",
                                   !.server = "open" ],
                               FirstPause - 1)
             ELSE IdleBatch ]

SpecLong == LongInit /\ [][Next]_vars

\* ------------------------------------------------------------ the throttle alone
MaxCount == 200

\* apply_smart_delay is about to be called with some count
DelayInit ==
    /\ db = EmptyDb /\ total_sent = 0 /\ clock = 0 /\ uuids = 0 /\ batches = 0
    /\ \E n \in 0..MaxCount :
         b = [ p \in Procs |->
                 IF p = Worker
                 THEN [ IdleBatch EXCEPT !.pc = "throttle", !.sent_count = n ]
                 ELSE IdleBatch ]

\* the call apply_smart_delay(sent_count): line 136-143; the pause is
\* noted also when there is none (d = 0)
DelayStep ==
    LET s == b[Worker]
    IN  /\ s.pc = "throttle"
        /\ b' = [b EXCEPT ![Worker].pc = "throttled",
                          ![Worker].pauses =
                              Append(@, [i |-> s.i, n |-> s.sent_count,
                                         d |-> apply_smart_delay(s.sent_count)])]
        /\ UNCHANGED << db, total_sent, clock, uuids, batches >>

SpecDelay == DelayInit /\ [][DelayStep]_vars

\* ------------------------------------------------------------ subjects
MaxPrefixes == 2

\* subjects made of at most n of the prefixes of line 213 and a letter
RECURSIVE Prefixed(_)
Prefixed(n) ==
    IF n = 0 THEN { << "x" >> }
    ELSE Prefixed(n - 1)
         \cup { TopicPrefixes[k] \o s : k \in DOMAIN TopicPrefixes, s \in Prefixed(n - 1) }

\* The store after the launch of campaign "A" for Al at tick 0, the subject
\* template being a text without placeholders; one more batch is run.
TopicInit ==
    /\ \E subject \in Prefixed(MaxPrefixes) :
         db = DbPut(EmptyDb, "A",
                    CampaignRecord(0, << Lit(subject) >>, Hi,
                        << LaunchRecord(strip(Al.Email), strip(Al.Name),
                                        generate_message_id(Sender, 1), subject,
                                        generate_thread_index(NoParent, 0, 2), 0, 0) >>))
    /\ total_sent = 1 /\ clock = 0 /\ uuids = 2
    /\ batches = MaxBatches - 1
    /\ b = [p \in Procs |-> IdleBatch]

SpecTopic == TopicInit /\ [][Next]_vars

\* ------------------------------------------------------------ stored indexes
MaxIndexLen == 3

\* Values of "thread_index" found in a store file: every text of at most
\* MaxIndexLen characters of a small alphabet, the index of an initial
\* message, the same without its "=" padding, and the index of a reply.
StoredIndexes ==
    UNION { [1..n -> {0, 1}] : n \in 0..MaxIndexLen }
        \cup { FreshIndex(0, 2),
               SubSeq(FreshIndex(0, 2), 1, DataLen(FreshIndex(0, 2))),
               generate_thread_index(FreshIndex(0, 2), 0, 0) }

\* The store holds campaign "A" with the recipient Al, whose thread_index
\* is one of StoredIndexes; one more batch is run.
IndexInit ==
    /\ \E ti \in StoredIndexes :
         db = DbPut(EmptyDb, "A",
                    CampaignRecord(0, Hi, Hi,
                        << LaunchRecord(strip(Al.Email), strip(Al.Name),
                                        generate_message_id(Sender, 1),
                                        render_email_template(Hi, Al).text,
                                        ti, 0, 0) >>))
    /\ total_sent = 1 /\ clock = 0 /\ uuids = 2
    /\ batches = MaxBatches - 1
    /\ b = [p \in Procs |-> IdleBatch]

SpecIndex == IndexInit /\ [][Next]_vars

\* ------------------------------------------------------------ rendering alone
MaxTokens == 2

RenderKeys == { "Name", "N'" }
RenderValues == { << "A", "l" >>, << "{", "x", "}" >> }
\* a context: some of the keys, each with a value
RenderContexts == UNION { [K -> RenderValues] : K \in SUBSET RenderKeys }
RenderTokens ==
    { Lit(<< "H", "i", " " >>), Index("Name", 3) } \cup { Field(k) : k \in RenderKeys }
RenderTemplates == UNION { [1..n -> RenderTokens] : n \in 0..MaxTokens }

\* render_email_template is about to be called with a template and a context
RenderInit ==
    /\ db = EmptyDb /\ total_sent = 0 /\ clock = 0 /\ uuids = 0 /\ batches = 0
    /\ \E template \in RenderTemplates, context \in RenderContexts :
         b = [ p \in Procs |->
                 IF p = Worker
                 THEN [ IdleBatch EXCEPT !.pc = "render",
                                         !.subject_template = template,
                                         !.df = << context >> ]
                 ELSE IdleBatch ]

\* the call render_email_template(template, context); what it returns is kept
RenderStep ==
    LET s == b[Worker]
    IN  /\ s.pc = "render"
        /\ b' = [b EXCEPT ![Worker].pc = "rendered",
                          ![Worker].results =
                              << render_email_template(s.subject_template, s.df[1]) >>]
        /\ UNCHANGED << db, total_sent, clock, uuids, batches >>

SpecRender == RenderInit /\ [][RenderStep]_vars

\* ------------------------------------------------------------ a corrupt store
\* campaign_db.json cannot be read when the first batch starts
CorruptInit ==
    /\ db = CorruptFile
    /\ total_sent = 0 /\ clock = 0 /\ uuids = 0 /\ batches = 0
    /\ b = [p \in Procs |-> IdleBatch]

SpecCorrupt == CorruptInit /\ [][Next]_vars

\* ------------------------------------------------------------ clearing the store
\* "Clear All Data" changed: the send counter is reset too
ClearAll_resetting ==
    /\ \A p \in Procs : b[p].pc \in {"idle", "done", "killed"}
    /\ db' = EmptyDb
    /\ total_sent' = 0
    /\ UNCHANGED << clock, uuids, batches, b >>

\* the button "Clear All Data": save_campaign_db({}) (app.py line 1157-1160;
\* Testapp.py line 167-170 writes the same {}); a click is handled by a run
\* of the script, so no batch of the session is in progress
ClearAll ==
    /\ \A p \in Procs : b[p].pc \in {"idle", "done", "killed"}
    /\ db' = EmptyDb
    /\ UNCHANGED << total_sent, clock, uuids, batches, b >>

ClearNext == Next \/ ClearAll

SpecClear == Init /\ [][ClearNext]_vars

\* ------------------------------------------------------------ after a launch
\* The store after the launch of campaign "A" for Al and Bob at tick 0;
\* the batches of the behaviour come after it.
LaunchedDb ==
    DbPut(EmptyDb, "A",
          CampaignRecord(0, Hi, Hi, << SeedLaunch(Al, 1), SeedLaunch(Bob, 3) >>))

LaunchedInit ==
    /\ db = LaunchedDb
    /\ total_sent = Len(LaunchedDb["A"].recipients)
    /\ uuids = 2 * Len(LaunchedDb["A"].recipients)
    /\ clock = 0
    /\ batches = 0
    /\ b = [p \in Procs |-> IdleBatch]

SpecLaunched == LaunchedInit /\ [][Next]_vars

\* ------------------------------------------------------------ forced follow-ups
MaxForced == 6     \* forced follow-up batches started over one behaviour

\* the operator runs a follow-up batch with "send now" on a campaign of the
\* store: line 373-391
ForcedStart(p) ==
    /\ b[p].pc \in {"idle", "done"} /\ batches < MaxForced
    /\ \E name \in DOMAIN load_campaign_db, tp \in FollowupTemplates :
         LET s == FollowupLocals(p, name, tp[1], tp[2], TRUE)
         IN  b' = [b EXCEPT ![p] =
                     [s EXCEPT !.pc = IF s.due = <<>> THEN "returned" ELSE "connect"]]
    /\ batches' = batches + 1
    /\ UNCHANGED << db, total_sent, clock, uuids >>

\* every call of server.sendmail made so far in the batch of p returned
AllAccepted(p) == \A k \in DOMAIN b[p].attempts : b[p].attempts[k].ok

\* a pass of the follow-up loop in which server.sendmail, if called, returns
ForcedStep(p) == FollowupStep(p) /\ AllAccepted(p)'

ForcedNext ==
    \/ ForcedStart(Worker)
    \/ ConnectOk(Worker)
    \/ ForcedStep(Worker)
    \/ FollowupFinish(Worker)
    \/ MainAfter(Worker)

\* After the launch of "A" the operator keeps running forced follow-up
\* batches: a batch that can be started is started, a connection that is
\* asked for is made, a loop that is over is followed by the save and the
\* return, and main goes on after the return.
SpecForced ==
    /\ LaunchedInit /\ [][ForcedNext]_vars
    /\ WF_vars(ForcedStart(Worker))
    /\ WF_vars(ConnectOk(Worker))
    /\ WF_vars(FollowupFinish(Worker))
    /\ WF_vars(MainAfter(Worker))

\* ------------------------------------------------------------ properties
Range(f) == { f[k] : k \in DOMAIN f }
RenderErrors == { MissingPlaceholder("").kind, RenderingError.kind }

\* the batch of p ran to its end and saved the store
Finished(p, kind) ==
    /\ b[p].kind = kind
    /\ b[p].pc \in {"returned", "done"}
    /\ b[p].saved

\* the addresses of the rows reported as Sent
SentTo(p) == { r.Email : r \in { x \in Range(b[p].results) : x.Status = "Sent" } }
\* the addresses server.sendmail accepted a message for
Accepted(p) == { m.to : m \in Range(b[p].outbox) }
\* the number of rows / due recipients of the batch of p
Total(p) == IF b[p].kind = "launch" THEN Len(b[p].df) ELSE Len(b[p].due)

\* C1: when a launch batch has completed, the recipient map of the campaign
\* it created holds exactly the addresses for which server.sendmail
\* succeeded in that batch, each with followups_sent = 0; an address all of
\* whose rows failed is absent.
C1_LaunchRecordsExactlySent ==
    \A p \in Procs :
        Finished(p, "launch") =>
            /\ b[p].campaign_name \in DOMAIN db
            /\ LET rs == db[b[p].campaign_name].recipients
               IN  /\ Keys(rs) = Accepted(p)
                   /\ Keys(rs) = SentTo(p)
                   /\ Len(rs) = Cardinality(Keys(rs))
                   /\ \A k \in DOMAIN rs : rs[k].followups_sent = 0
                   /\ \A r \in Range(b[p].results) :
                        (r.Status = "Failed" /\ r.Email \notin SentTo(p))
                            => r.Email \notin Keys(rs)

\* a launch in which one address was sent and another failed at sendmail
C1_Witness ==
    \E p \in Procs :
        /\ Finished(p, "launch")
        /\ \E r1, r2 \in Range(b[p].results) :
             /\ r1.Status = "Sent"
             /\ r2.Status = "Failed" /\ r2.Message = "SMTP error"
             /\ r2.Email \notin Keys(db[b[p].campaign_name].recipients)
             /\ r1.Email \in Keys(db[b[p].campaign_name].recipients)

\* C2: a launch under a campaign name that is in the store never connects
\* and never submits: it returns (0, 0, []) and the store, the record under
\* that name included, is as it was.
C2_ExistingNameRejected ==
    \A p \in Procs :
        (b[p].kind = "launch" /\ b[p].campaign_name \in DOMAIN b[p].db0) =>
            /\ b[p].pc \in {"returned", "done"}
            /\ b[p].server = "none"
            /\ b[p].attempts = <<>> /\ b[p].outbox = <<>>
            /\ b[p].ret = NoReturn
            /\ ~b[p].saved
            /\ db = b[p].db0

\* a launch of a non-empty list under an existing name has returned
C2_Witness ==
    \E p \in Procs :
        /\ b[p].kind = "launch" /\ b[p].pc = "done"
        /\ b[p].df # <<>>
        /\ b[p].campaign_name \in DOMAIN b[p].db0
        /\ b[p].db0[b[p].campaign_name].recipients # <<>>

\* C3: a batch whose connection or authentication failed has raised, has
\* submitted no message, and the store and the send counter are what they
\* were when it started.
C3_ConnectFailureAborts ==
    \A p \in Procs :
        b[p].ret.raised = AuthenticationFailed =>
            /\ b[p].pc \in {"returned", "done"}
            /\ b[p].attempts = <<>> /\ b[p].outbox = <<>> /\ b[p].results = <<>>
            /\ b[p].ret.sent = 0 /\ b[p].ret.failed = 0
            /\ ~b[p].saved
            /\ db = b[p].db0
            /\ total_sent = b[p].total0

\* a follow-up batch with recipients due failed to connect and main went on
C3_Witness ==
    \E p \in Procs :
        /\ b[p].ret.raised = AuthenticationFailed
        /\ b[p].pc = "done"
        /\ b[p].kind = "followup"
        /\ b[p].due # <<>>
        /\ total_sent > 0

\* C4: a failed server.sendmail is reported as Failed for its recipient, no
\* pass of the loop calls server.sendmail twice, and when the batch has
\* completed every pass after the failed one has been made: each has its
\* result row and, unless its render failed, its own server.sendmail call.
C4_FailureDoesNotStopBatch ==
    \A p \in Procs :
        LET s == b[p]
        IN  /\ \A j, k \in DOMAIN s.attempts :
                 s.attempts[j].i = s.attempts[k].i => j = k
            /\ \A k \in DOMAIN s.attempts :
                 LET a == s.attempts[k]
                 IN  ~a.ok =>
                        /\ a.i \in DOMAIN s.results
                        /\ s.results[a.i].Status = "Failed"
                        /\ s.results[a.i].Email = a.to
            /\ s.saved =>
                 /\ Len(s.results) = Total(p)
                 /\ \A k \in DOMAIN s.attempts :
                      ~s.attempts[k].ok =>
                         \A j \in (s.attempts[k].i + 1)..Total(p) :
                            \/ s.results[j].Message \in RenderErrors
                            \/ \E m \in DOMAIN s.attempts : s.attempts[m].i = j

\* a completed batch whose first sendmail failed and whose second was made
C4_Witness ==
    \E p \in Procs :
        /\ b[p].saved
        /\ Len(b[p].attempts) >= 2
        /\ ~b[p].attempts[1].ok
        /\ b[p].attempts[2].i > b[p].attempts[1].i

\* every stored followups_sent is at most the planned count of its campaign
WithinPlanned ==
    \A n \in DOMAIN db : \A k \in DOMAIN db[n].recipients :
        db[n].recipients[k].followups_sent <= db[n].total_followups_planned

\* no stored followups_sent is smaller in the next store state
NonDecreasing ==
    \A n \in DOMAIN db \cap DOMAIN db' :
        \A e \in Keys(db[n].recipients) \cap Keys(db'[n].recipients) :
            Get(db'[n].recipients, e).followups_sent
                >= Get(db[n].recipients, e).followups_sent

\* C5: over batches run one after another, a recipient's stored
\* followups_sent never decreases from one store state to the next and is
\* never above the planned follow-up count of its campaign.
C5_FollowupsMonotoneAndBounded == [][NonDecreasing]_vars /\ []WithinPlanned

\* a follow-up batch has brought a recipient to the planned count
C5_Witness ==
    \E p \in Procs :
        /\ Finished(p, "followup")
        /\ \E e \in Accepted(p) :
             LET c == db[b[p].campaign_name]
             IN  /\ Get(c.recipients, e).followups_sent = c.total_followups_planned
                 /\ Get(b[p].db0[b[p].campaign_name].recipients, e).followups_sent
                        < c.total_followups_planned

\* C6: in every store state, every recipient's next_followup_date is its
\* last_sent_date plus the interval_days of its campaign.
C6_NextIsLastPlusInterval ==
    \A n \in DOMAIN db : \A k \in DOMAIN db[n].recipients :
        LET r == db[n].recipients[k]
        IN  fromisoformat(r.next_followup_date)
                = fromisoformat(r.last_sent_date)
                    + timedelta(db[n].followup_interval_days)

\* C7: for every message a follow-up batch has had accepted, the recipient's
\* record has followups_sent one above what the store held when the batch
\* started, the message identifier and the conversation-index of that
\* message (a new identifier), last_sent_date = the batch's now and
\* next_followup_date = now + interval_days; the store holds this record
\* once the batch has saved.
C7_FollowupAdvancesRecord ==
    \A p \in Procs :
        b[p].kind = "followup" =>
            \A k \in DOMAIN b[p].outbox :
                LET s == b[p]
                    m == s.outbox[k]
                    rec == Get(s.recipients, m.to)
                    c0 == s.db0[s.campaign_name]
                    old == Get(c0.recipients, m.to)
                IN  /\ rec.followups_sent = old.followups_sent + 1
                    /\ rec.message_id = m.msg_id
                    /\ rec.message_id # old.message_id
                    /\ rec.thread_index = m.thread_index
                    /\ fromisoformat(rec.last_sent_date) = s.now
                    /\ fromisoformat(rec.next_followup_date)
                          = s.now + timedelta(c0.followup_interval_days)
                    /\ s.saved => Get(db[s.campaign_name].recipients, m.to) = rec

\* a follow-up batch that sent a message has saved the store
C7_Witness ==
    \E p \in Procs : Finished(p, "followup") /\ b[p].outbox # <<>>

\* C8: a recipient stored with followups_sent >= planned is in no due set
\* and no follow-up batch calls server.sendmail for it, forced or not; the
\* scheduler view of main shows it as completed and not as due.
C8_CompletedNeverDue ==
    /\ \A p \in Procs :
         (b[p].kind = "followup" /\ b[p].campaign_name \in DOMAIN b[p].db0) =>
            LET c0 == b[p].db0[b[p].campaign_name]
                done == { c0.recipients[k].email : k \in { j \in DOMAIN c0.recipients :
                            c0.recipients[j].followups_sent >= c0.total_followups_planned } }
            IN  /\ done \cap Range(b[p].due) = {}
                /\ done \cap { a.to : a \in Range(b[p].attempts) } = {}
                /\ done \cap Accepted(p) = {}
    /\ \A n \in DOMAIN db :
         LET done == { db[n].recipients[k].email : k \in { j \in DOMAIN db[n].recipients :
                         db[n].recipients[j].followups_sent
                             >= db[n].total_followups_planned } }
         IN  /\ done = completed2(db[n].recipients, db[n].total_followups_planned)
             /\ done \cap due2(db[n].recipients, db[n].total_followups_planned, clock) = {}

\* a forced follow-up batch has sent to a campaign in which another
\* recipient was completed, its next_followup_date already passed
C8_Witness ==
    \E p \in Procs :
        /\ Finished(p, "followup")
        /\ b[p].force_send_now
        /\ b[p].outbox # <<>>
        /\ \E r \in Range(b[p].db0[b[p].campaign_name].recipients) :
             /\ r.followups_sent >= b[p].db0[b[p].campaign_name].total_followups_planned
             /\ fromisoformat(r.next_followup_date) <= b[p].now

\* C9: when a follow-up batch has completed, a recipient whose follow-up
\* failed (render or sendmail) has in the store the record it had when the
\* batch started, and is due again for a batch started now in the same mode.
C9_FailedFollowupUnchanged ==
    \A p \in Procs :
        Finished(p, "followup") =>
            \A r \in Range(b[p].results) :
                r.Status = "Failed" =>
                    LET c == db[b[p].campaign_name]
                        c0 == b[p].db0[b[p].campaign_name]
                    IN  /\ r.Email \in Keys(c.recipients)
                        /\ Get(c.recipients, r.Email) = Get(c0.recipients, r.Email)
                        /\ r.Email \in Range(DueKeys(c.recipients,
                                                     c.total_followups_planned,
                                                     b[p].force_send_now, clock))

\* a completed follow-up batch with a failed sendmail, time having passed
C9_Witness ==
    \E p \in Procs :
        /\ Finished(p, "followup")
        /\ \E r \in Range(b[p].results) : r.Status = "Failed" /\ r.Message = "SMTP error"
        /\ clock > b[p].now

\* C10: a follow-up batch that finds nobody due never connects and never
\* submits: it returns (0, 0, []) and does not write the store.
C10_NothingDueIsNoOp ==
    \A p \in Procs :
        (/\ b[p].kind = "followup"
         /\ b[p].campaign_name \in DOMAIN b[p].db0
         /\ b[p].due = <<>>) =>
            /\ b[p].pc \in {"returned", "done"}
            /\ b[p].server = "none"
            /\ b[p].attempts = <<>> /\ b[p].outbox = <<>>
            /\ b[p].ret = NoReturn
            /\ ~b[p].saved
            /\ db = b[p].db0

\* a non-forced follow-up batch on a campaign with a recipient that is not
\* completed and not yet due has returned
C10_Witness ==
    \E p \in Procs :
        /\ b[p].kind = "followup" /\ b[p].pc = "done"
        /\ b[p].campaign_name \in DOMAIN b[p].db0
        /\ b[p].due = <<>>
        /\ ~b[p].force_send_now
        /\ \E r \in Range(b[p].db0[b[p].campaign_name].recipients) :
             r.followups_sent < b[p].db0[b[p].campaign_name].total_followups_planned

\* the addresses of the campaign of p that had followups_sent below the
\* planned count in the store the batch of p loaded
Unfinished(p) ==
    LET c0 == b[p].db0[b[p].campaign_name]
    IN  { c0.recipients[k].email : k \in { j \in DOMAIN c0.recipients :
            c0.recipients[j].followups_sent < c0.total_followups_planned } }

\* C11: the due set of a forced follow-up batch is exactly the recipients
\* with followups_sent < planned, whatever their next_followup_date; the due
\* set of a batch that is not forced is exactly those of them whose
\* next_followup_date is not after the batch's now.
C11_DueSetByMode ==
    \A p \in Procs :
        (b[p].kind = "followup" /\ b[p].campaign_name \in DOMAIN b[p].db0) =>
            LET c0 == b[p].db0[b[p].campaign_name]
            IN  /\ b[p].force_send_now => Range(b[p].due) = Unfinished(p)
                /\ ~b[p].force_send_now =>
                      Range(b[p].due) =
                        { e \in Unfinished(p) :
                            fromisoformat(Get(c0.recipients, e).next_followup_date)
                                <= b[p].now }

\* a forced batch is sending to a recipient whose next_followup_date is
\* after the batch's now
C11_Witness ==
    \E p \in Procs :
        /\ b[p].kind = "followup" /\ b[p].pc = "loop"
        /\ b[p].force_send_now
        /\ b[p].outbox # <<>>
        /\ \E e \in Accepted(p) :
             fromisoformat(Get(b[p].db0[b[p].campaign_name].recipients, e)
                              .next_followup_date) > b[p].now

\* C12: when a batch has returned or raised, no mail session it opened is
\* still open, also when server.login failed after the connection was
\* made; and the batch raises nothing but the connection failure and the
\* unknown campaign (an error of server.quit is not passed on).
C12_SessionClosedAtExit ==
    \A p \in Procs :
        b[p].pc \in {"returned", "done"} =>
            /\ b[p].server # "open"
            /\ b[p].ret.raised \in {"", AuthenticationFailed, NotFound}
            /\ b[p].saved => b[p].ret.raised = ""

\* the messages of the batch of p that server.sendmail accepted are in the
\* store: a launched recipient has its record, a followed-up recipient has
\* a followups_sent above the one the batch loaded
ConfirmedAreStored(p) ==
    LET s == b[p]
    IN  \A m \in Range(s.outbox) :
            /\ s.campaign_name \in DOMAIN db
            /\ m.to \in Keys(db[s.campaign_name].recipients)
            /\ s.kind = "followup" =>
                  Get(db[s.campaign_name].recipients, m.to).followups_sent
                    > Get(s.db0[s.campaign_name].recipients, m.to).followups_sent

\* the recipients of the campaign of p for which the batch of p had no
\* message accepted are in the store as they were when it started
UnsentAreUntouched(p) ==
    LET s == b[p]
    IN  \A n \in DOMAIN s.db0 : \A e \in Keys(s.db0[n].recipients) :
            (n # s.campaign_name \/ e \notin Accepted(p)) =>
                /\ n \in DOMAIN db
                /\ e \in Keys(db[n].recipients)
                /\ Get(db[n].recipients, e) = Get(s.db0[n].recipients, e)

\* C13: when the process is killed during a batch, every recipient for
\* which server.sendmail had succeeded is recorded in the store, and the
\* recipients not yet sent are in the store as before.
C13_InterruptKeepsConfirmed ==
    \A p \in Procs :
        b[p].pc = "killed" => ConfirmedAreStored(p) /\ UnsentAreUntouched(p)

\* C14: when a batch has saved the store, the updates of every batch that
\* has saved are in the store, also when the two batches overlapped: the
\* load-update-save cycles take effect one after the other and no update
\* is lost.
C14_NoLostUpdate ==
    \A p \in Procs :
        (b[p].saved /\ b[p].pc \in {"returned", "done"}) => ConfirmedAreStored(p)

\* C15: of the launches made under one campaign name, however they are
\* interleaved, at most one has a message accepted and at most one writes
\* the campaign record.
C15_OneLaunchPerName ==
    \A p, q \in Procs :
        (/\ p # q
         /\ b[p].kind = "launch" /\ b[q].kind = "launch"
         /\ b[p].campaign_name = b[q].campaign_name) =>
            /\ ~(b[p].outbox # <<>> /\ b[q].outbox # <<>>)
            /\ ~(b[p].saved /\ b[q].saved)

\* the context of pass i of the loop of the batch of p
PassContext(p, i) ==
    LET s == b[p]
    IN  IF s.kind = "launch" THEN s.df[i]
        ELSE LET data == Get(s.db0[s.campaign_name].recipients, s.due[i])
             IN  [Name |-> data.name, Email |-> s.due[i],
                  followup_num |-> str(data.followups_sent + 1)]
\* the subject, resp. body, template of the batch of p does not render in pass i
SubjectFails(p, i) ==
    render_email_template(b[p].subject_template, PassContext(p, i)).err # NoErr
BodyFails(p, i) ==
    render_email_template(b[p].body_template, PassContext(p, i)).err # NoErr
\* pass i of the batch of p ended as Failed without a call of server.sendmail
FailedUnsubmitted(p, i) ==
    /\ b[p].results[i].Status = "Failed"
    /\ b[p].results[i].Message \in RenderErrors
    /\ \A k \in DOMAIN b[p].attempts : b[p].attempts[k].i # i
\* the batch of p counted its Failed rows and went through its whole list
CountedAndContinued(p) ==
    /\ b[p].failed_count
          = Cardinality({ i \in DOMAIN b[p].results : b[p].results[i].Status = "Failed" })
    /\ b[p].saved => Len(b[p].results) = Total(p)

C17_PauseOnlyAfterSent ==
    \A p \in Procs :
        /\ \A k \in DOMAIN b[p].pauses :
             b[p].results[b[p].pauses[k].i].Status = "Sent"
        /\ \A j, k \in DOMAIN b[p].pauses :
             b[p].pauses[j].n = b[p].pauses[k].n => j = k

\* the number of passes 1..i of the batch of p that ended as Sent
SentUpTo(p, i) ==
    Cardinality({ j \in 1..i : b[p].results[j].Status = "Sent" })

\* C18: the pause after a successful send is the one apply_smart_delay
\* gives for the number of successful sends of all batches since the
\* program was started (here with a send counter of 0, so that the counter
\* at the start of a batch is that number), not for the number of sends of
\* the current batch.
C18_PauseByCumulativeCount ==
    \A p \in Procs :
        \A i \in DOMAIN b[p].results :
            b[p].results[i].Status = "Sent" =>
                LET d == apply_smart_delay(b[p].total0 + SentUpTo(p, i))
                IN  /\ d > 0 => \E k \in DOMAIN b[p].pauses :
                                   b[p].pauses[k].i = i /\ b[p].pauses[k].d = d
                    /\ d = 0 => \A k \in DOMAIN b[p].pauses : b[p].pauses[k].i # i

\* the pauses whose condition holds for the count n, and no pause
Applicable(n) ==
    {0} \cup (IF n > 0 /\ n % 100 = 0 THEN {80} ELSE {})
        \cup (IF n > 0 /\ n % 50 = 0 THEN {50} ELSE {})
        \cup (IF n > 0 /\ n % 10 = 0 THEN {25} ELSE {})

\* C19: a call apply_smart_delay(n) makes exactly one pause decision: 8
\* when n is a positive multiple of 100, otherwise 5 when it is a positive
\* multiple of 50, otherwise 2.5 when it is a positive multiple of 10,
\* otherwise (and for n = 0) none; it is the longest pause whose condition
\* holds. (Pauses are in tenths.)
C19_LongestApplicablePause ==
    \A p \in Procs :
        b[p].pc = "throttled" =>
            /\ Len(b[p].pauses) = 1
            /\ LET n == b[p].pauses[1].n
                   d == b[p].pauses[1].d
               IN  /\ n = b[p].sent_count
                   /\ d \in Applicable(n)
                   /\ \A x \in Applicable(n) : x <= d
                   /\ (n > 0 /\ n % 100 = 0) => d = 80
                   /\ (n > 0 /\ n % 100 # 0 /\ n % 50 = 0) => d = 50
                   /\ (n > 0 /\ n % 50 # 0 /\ n % 10 = 0) => d = 25
                   /\ (n = 0 \/ n % 10 # 0) => d = 0

\* apply_smart_delay was called with a positive multiple of 100, for which
\* all three conditions hold
C19_Witness ==
    \E p \in Procs :
        /\ b[p].pc = "throttled"
        /\ b[p].sent_count > 0 /\ b[p].sent_count % 100 = 0
        /\ b[p].pauses[1].d = 80

\* the pause decided by the call apply_smart_delay(n) of p, if n is its count
PauseAfter(p, n, d) ==
    (b[p].pc = "throttled" /\ b[p].sent_count = n) => b[p].pauses[1].d = d

\* C20 as stated: the pause after 100 is 8, after 50 it is 5, after 10 it
\* is 2.5, after 30 and after 77 it is 0.
C20_ListedPauses ==
    \A p \in Procs :
        /\ PauseAfter(p, 100, 80)
        /\ PauseAfter(p, 50, 50)
        /\ PauseAfter(p, 10, 25)
        /\ PauseAfter(p, 30, 0)
        /\ PauseAfter(p, 77, 0)

\* C20, amended: the pause after 100 is 8, after 50 it is 5, after 10 and
\* after 30 it is 2.5, after 77 it is 0.
C20_ListedPausesAmended ==
    \A p \in Procs :
        /\ PauseAfter(p, 100, 80)
        /\ PauseAfter(p, 50, 50)
        /\ PauseAfter(p, 10, 25)
        /\ PauseAfter(p, 30, 25)
        /\ PauseAfter(p, 77, 0)

\* apply_smart_delay was called with 30 and decided a pause of 2.5
C20_Witness ==
    \E p \in Procs :
        /\ b[p].pc = "throttled"
        /\ b[p].sent_count = 30
        /\ b[p].pauses[1].d = 25

\* the last message of the batch of p accepted for the address e
LastTo(p, e) ==
    LET ks == { k \in DOMAIN b[p].outbox : b[p].outbox[k].to = e }
    IN  b[p].outbox[CHOOSE k \in ks : \A j \in ks : j <= k]

\* C21: In-Reply-To and References of every follow-up message are the
\* message_id the store held for its recipient when the batch started, an
\* identifier drawn before the message's own; a recipient's message_id is
\* the identifier of the last message accepted for it (initial message or
\* follow-up), and a follow-up that failed leaves it as it was.
C21_RepliesToLastSent ==
    \A p \in Procs :
        LET s == b[p]
        IN  /\ \A e \in Accepted(p) :
                 Get(s.recipients, e).message_id = LastTo(p, e).msg_id
            /\ s.kind = "launch" =>
                 \A m \in Range(s.outbox) : m.in_reply_to = NoId /\ m.references = NoId
            /\ s.kind = "followup" =>
                 /\ \A m \in Range(s.outbox) :
                      LET old == Get(s.db0[s.campaign_name].recipients, m.to)
                      IN  /\ m.in_reply_to = old.message_id
                          /\ m.references = old.message_id
                          /\ m.in_reply_to # NoId
                          /\ m.in_reply_to.uuid < m.msg_id.uuid
                 /\ \A a \in Range(s.attempts) :
                      ~a.ok => Get(s.recipients, a.to).message_id
                                 = Get(s.db0[s.campaign_name].recipients, a.to).message_id
            /\ (s.saved /\ s.pc \in {"returned", "done"}) =>
                 db[s.campaign_name].recipients = s.recipients

\* a follow-up batch on a campaign launched in this run has saved: one
\* follow-up failed, another replied to the first message of the launch
C21_Witness ==
    \E p \in Procs :
        /\ Finished(p, "followup")
        /\ \E a \in Range(b[p].attempts) : ~a.ok
        /\ \E m \in Range(b[p].outbox) :
             m.in_reply_to = generate_message_id(Sender, 1)

C23_TopicHasNoPrefix ==
    \A p \in Procs :
        b[p].kind = "followup" =>
            \A m \in Range(b[p].outbox) :
                /\ \A k \in DOMAIN TopicPrefixes :
                     ~startswith(m.thread_topic, TopicPrefixes[k])
                /\ m.thread_topic = clean_subject(m.thread_topic)

\* the number of bytes the index ti decodes to
DecodedLen(ti) == Len(b64decode(PadIndex(ti)))
\* the index ti, padded as generate_thread_index pads it, can be decoded
Decodable(ti) == B64Ok(PadIndex(ti))
\* the thread_index the store held for the recipient of m when the batch
\* of p started
ParentOf(p, m) == Get(b[p].db0[b[p].campaign_name].recipients, m.to).thread_index

\* C24: the index of an initial message is the encoding of exactly 22
\* bytes; the index of a follow-up whose parent index decodes is the
\* encoding of 5 bytes more than the parent decodes to.
C24_IndexLengths ==
    \A p \in Procs : \A m \in Range(b[p].outbox) :
        /\ Decodable(m.thread_index)
        /\ m.thread_index = b64encode(b64decode(m.thread_index))
        /\ b[p].kind = "launch" => DecodedLen(m.thread_index) = 22
        /\ (b[p].kind = "followup" /\ Decodable(ParentOf(p, m))) =>
              DecodedLen(m.thread_index) = DecodedLen(ParentOf(p, m)) + 5

\* a follow-up has been accepted whose parent index was stored without its
\* padding and decodes to 22 bytes
C24_Witness ==
    \E p \in Procs :
        /\ b[p].kind = "followup"
        /\ \E m \in Range(b[p].outbox) :
             /\ Len(ParentOf(p, m)) % 4 # 0
             /\ Decodable(ParentOf(p, m))
             /\ DecodedLen(ParentOf(p, m)) = 22
             /\ DecodedLen(m.thread_index) = 27

\* C25: in a follow-up batch, a recipient whose stored index cannot be
\* decoded is treated like any other: unless its body does not render,
\* server.sendmail is called for it, and the message carries the encoding
\* of 22 bytes (6 of the time, 16 of a new identifier), which becomes the
\* recipient's index when the message is accepted.
C25_UndecodableParentFallsBack ==
    \A p \in Procs :
        (b[p].kind = "followup" /\ b[p].campaign_name \in DOMAIN b[p].db0) =>
            /\ \A i \in DOMAIN b[p].results :
                 ~BodyFails(p, i) =>
                    \E k \in DOMAIN b[p].attempts : b[p].attempts[k].i = i
            /\ \A m \in Range(b[p].outbox) :
                 ~Decodable(ParentOf(p, m)) =>
                    /\ Decodable(m.thread_index)
                    /\ DecodedLen(m.thread_index) = 22
                    /\ \E t \in b[p].now..clock, n \in 1..uuids :
                         m.thread_index = FreshIndex(t, n)
                    /\ Get(b[p].recipients, m.to).thread_index = m.thread_index

\* a follow-up to a recipient whose stored index cannot be decoded has
\* been accepted and the store saved
C25_Witness ==
    \E p \in Procs :
        /\ Finished(p, "followup")
        /\ \E m \in Range(b[p].outbox) :
             /\ ~Decodable(ParentOf(p, m))
             /\ Get(db[b[p].campaign_name].recipients, m.to).followups_sent = 1

\* C26: over batches run one after another, when main has handled a batch
\* the stored total_sent is what it was when the batch started plus the
\* number of messages server.sendmail accepted in the batch (nothing is
\* added for a batch that sent nothing or raised), and until then it is
\* unchanged; so it grows by exactly the successful submissions of all
\* batches.
C26_CounterAddsAccepted ==
    \A p \in Procs :
        /\ b[p].pc \in {"connect", "loop", "returned"} => total_sent = b[p].total0
        /\ b[p].pc = "done" => total_sent = b[p].total0 + Len(b[p].outbox)
        /\ b[p].pc \in {"returned", "done"} => b[p].ret.sent = Len(b[p].outbox)

\* main has handled the second batch of the run; both the first and the
\* second batch had messages accepted
C26_Witness ==
    \E p \in Procs :
        /\ b[p].pc = "done" /\ batches = 2
        /\ b[p].outbox # <<>>
        /\ b[p].total0 \in {1, 2}
        /\ total_sent > b[p].total0

\* the address of pass i of the loop of the batch of p
PassEmail(p, i) ==
    IF b[p].kind = "launch" THEN strip(b[p].df[i].Email) ELSE b[p].due[i]

\* C27: a batch that has gone through its loop returns one result for
\* every row of its input (launch) or every recipient of its due set
\* (follow-up), in that order; its sent count is the number of results
\* marked Sent, its failed count the number marked Failed, and the two add
\* up to the number of rows or due recipients.
C27_OneResultPerRecipient ==
    \A p \in Procs :
        (b[p].saved /\ b[p].pc \in {"returned", "done"}) =>
            LET r == b[p].ret
            IN  /\ Len(r.results) = Total(p)
                /\ \A i \in DOMAIN r.results :
                     /\ r.results[i].Email = PassEmail(p, i)
                     /\ r.results[i].Status \in {"Sent", "Failed"}
                /\ r.sent = Cardinality({ i \in DOMAIN r.results :
                                            r.results[i].Status = "Sent" })
                /\ r.failed = Cardinality({ i \in DOMAIN r.results :
                                              r.results[i].Status = "Failed" })
                /\ r.sent + r.failed = Total(p)

\* a launch of two rows with different addresses has returned, the first
\* row failed at rendering and the second sent
C27_Witness ==
    \E p \in Procs :
        /\ Finished(p, "launch")
        /\ Len(b[p].ret.results) = 2
        /\ b[p].ret.results[1].Email # b[p].ret.results[2].Email
        /\ b[p].ret.results[1].Message \in RenderErrors
        /\ b[p].ret.results[2].Status = "Sent"
        /\ b[p].ret.sent = 1 /\ b[p].ret.failed = 1

\* the keys of the replacement fields of a template
Placeholders(template) ==
    { template[i].key : i \in { j \in DOMAIN template : template[j].t # "lit" } }

\* C28 (as stated; the code does not keep it): rendering a template that
\* references a key absent from the context returns an error and no text,
\* and the error names exactly an absent key of the template.
C28_ErrorNamesAbsentKey ==
    LET s == b[Worker]
    IN  s.pc = "rendered" =>
            LET r == s.results[1]
                absent == Placeholders(s.subject_template) \ DOMAIN s.df[1]
            IN  absent # {} =>
                    /\ r.text = <<>>
                    /\ r.err.kind = "missing placeholder"
                    /\ \E k \in absent : r.err.key = KeyText(k)

\* the text holds placeholder syntax: a "{" with a "}" after it
HasPlaceholder(text) ==
    \E i, j \in DOMAIN text : i < j /\ text[i] = "{" /\ text[j] = "}"

HasBrace(text) == \E i \in DOMAIN text : text[i] \in { "{", "}" }

\* the template with every "{key}" replaced by the value of the key
RECURSIVE Substituted(_, _)
Substituted(template, context) ==
    IF template = <<>> THEN <<>>
    ELSE (IF Head(template).t = "lit" THEN Head(template).s
          ELSE context[Head(template).key])
         \o Substituted(Tail(template), context)

\* every replacement field of the template is a plain "{key}"
PlainFields(template) == \A i \in DOMAIN template : template[i].t \in { "lit", "field" }

OnCorrupt(p) == b[p].pc # "idle" /\ b[p].db0 = CorruptFile

\* C30: a batch that starts on an unreadable store file loads an empty
\* mapping and goes on as on an empty store: a follow-up batch reports that
\* the campaign is not found, a launch is never rejected for its name, and
\* the store a launch saves holds its campaign and nothing else.
C30_CorruptStoreIsEmpty ==
    \A p \in Procs :
        OnCorrupt(p) =>
            /\ b[p].db = (IF b[p].saved THEN db ELSE EmptyDb)
            /\ b[p].kind = "followup" =>
                   (b[p].pc \in {"returned", "done"} /\ b[p].ret = Raised(NotFound))
            /\ (b[p].kind = "launch" /\ b[p].df # <<>>
                    /\ b[p].pc \in {"returned", "done"} /\ b[p].ret.raised = "") =>
                   /\ b[p].saved
                   /\ DOMAIN db = { b[p].campaign_name }
                   /\ Len(b[p].ret.results) = Len(b[p].df)

\* a launch that started on an unreadable store has saved its campaign
C30_Witness ==
    \E p \in Procs :
        /\ OnCorrupt(p) /\ Finished(p, "launch")
        /\ b[p].ret.sent > 0
        /\ DOMAIN db = { b[p].campaign_name }

\* a step that empties a store holding campaigns while no batch is running
Cleared ==
    /\ db # EmptyDb /\ db' = EmptyDb
    /\ b' = b

\* C31: clearing leaves a store in which no campaign exists, so that no name
\* is rejected by the name check of a launch, and leaves the send counter as
\* it was.
C31_ClearEmptiesStoreOnly ==
    [][Cleared => /\ DOMAIN load_campaign_db' = {}
                  /\ \A name \in Names : name \notin DOMAIN load_campaign_db'
                  /\ total_sent' = total_sent]_vars

\* a name of the store was cleared and has been launched again, the counter
\* still holding what was counted before
C31_Witness ==
    \E p \in Procs :
        /\ Finished(p, "launch")
        /\ b[p].campaign_name \in DOMAIN SeedDb
        /\ b[p].db0 = EmptyDb
        /\ b[p].total0 = SeedTotalSent
        /\ b[p].ret.sent > 0

\* the changes of position a batch may make: Idle -> Connecting (or an
\* immediate return), Connecting -> Sending or a fatal return, Sending ->
\* Sending or the closing return, then main takes the return
BatchOrder ==
    { << "idle", "connect" >>, << "idle", "returned" >>,
      << "done", "connect" >>, << "done", "returned" >>,
      << "connect", "loop" >>, << "connect", "returned" >>,
      << "loop", "loop" >>, << "loop", "returned" >>,
      << "returned", "done" >> }

\* one step of the program seen from the batch of p
OrderedStep(p) ==
    LET s == b[p]
        t == b'[p]
    IN  /\ t.pc # s.pc => << s.pc, t.pc >> \in BatchOrder
        \* the session is opened once, while connecting, and closed when
        \* the loop is left
        /\ (t.server = "open" /\ s.server # "open") =>
               (s.pc = "connect" /\ s.server = "none" /\ s.attempts = <<>>)
        /\ (t.server = "closed" /\ s.server # "closed") =>
               (s.pc = "loop" /\ s.server = "open" /\ t.pc = "returned")
        \* a submission: one at a time, on the open session, to the
        \* recipient the loop stands at, and the loop moves on
        /\ (t.attempts # s.attempts /\ t.attempts # <<>>) =>
               /\ s.pc = "loop" /\ s.server = "open" /\ t.server = "open"
               /\ Len(t.attempts) = Len(s.attempts) + 1
               /\ SubSeq(t.attempts, 1, Len(s.attempts)) = s.attempts
               /\ t.attempts[Len(t.attempts)].to = PassEmail(p, s.i)
               /\ t.i = s.i + 1

\* submissions were made on a session that was opened, and in the order of
\* the recipients
OrderedSession(p) ==
    /\ b[p].attempts # <<>> => b[p].server \in {"open", "closed"}
    /\ b[p].pc \in {"idle", "connect"} => (b[p].server = "none" /\ b[p].attempts = <<>>)
    /\ \A j, k \in DOMAIN b[p].attempts :
         j < k => b[p].attempts[j].i < b[p].attempts[k].i

\* C32: every batch goes Idle -> Connecting -> Sending per recipient ->
\* Closed: the session is opened (authenticated) once and before the first
\* submission, submissions are made one at a time in recipient order, and
\* none is made after the session was closed.
C32_BatchStepsInOrder ==
    /\ [][\A p \in Procs : OrderedStep(p)]_vars
    /\ [](\A p \in Procs : OrderedSession(p))

\* a batch submitted to two recipients and closed its session
C32_Witness ==
    \E p \in Procs :
        /\ b[p].pc = "returned" /\ b[p].server = "closed"
        /\ Len(b[p].attempts) = MaxRows
        /\ b[p].attempts[1].to # b[p].attempts[MaxRows].to

\* the records of d2 that are not in d1 as they are
ChangedIn(d1, d2) ==
    { e \in Keys(d2) : e \notin Keys(d1) \/ Get(d2, e) # Get(d1, e) }

\* a pass of the loop of p creates or changes in memory at most the record
\* of the recipient whose submission it has just seen accepted, and removes
\* none
MemoryAfterSuccess(p) ==
    LET s == b[p]
        t == b'[p]
    IN  (s.pc = "loop" /\ t.pc = "loop") =>
            /\ Keys(s.recipients) \subseteq Keys(t.recipients)
            /\ \A e \in ChangedIn(s.recipients, t.recipients) :
                 /\ Len(t.outbox) = Len(s.outbox) + 1
                 /\ t.outbox[Len(t.outbox)].to = e
                 /\ t.attempts[Len(t.attempts)] = [i |-> s.i, to |-> e, ok |-> TRUE]

\* a step that writes the store creates or changes only records of
\* recipients of the writing batch whose submission was accepted
StoreAfterSuccess ==
    \A n \in DOMAIN db' :
        \A e \in ChangedIn(IF n \in DOMAIN db THEN db[n].recipients ELSE <<>>,
                           db'[n].recipients) :
            \E p \in Procs : b[p].campaign_name = n /\ e \in Accepted(p)

\* C33: a recipient's record, in memory and in the store, is created or
\* changed only after the submission to that recipient returned success.
C33_MutatedOnlyAfterSuccess ==
    [][(\A p \in Procs : MemoryAfterSuccess(p)) /\ StoreAfterSuccess]_vars

\* a follow-up batch with a refused submission has saved, and the store
\* differs from the one it loaded
C33_Witness ==
    \E p \in Procs :
        /\ Finished(p, "followup")
        /\ \E k \in DOMAIN b[p].attempts : ~b[p].attempts[k].ok
        /\ b[p].outbox # <<>>
        /\ db # b[p].db0

\* C34: every recipient record of the store holds a thread_index that
\* decodes to 22 bytes and 5 more for each follow-up sent to the recipient.
C34_IndexLengthByFollowups ==
    \A n \in DOMAIN db : \A k \in DOMAIN db[n].recipients :
        LET rec == db[n].recipients[k]
        IN  /\ Decodable(rec.thread_index)
            /\ DecodedLen(rec.thread_index) = 22 + (5 * rec.followups_sent)

\* a launch and a follow-up batch of this run have left a recipient with one
\* follow-up and an index of 27 bytes
C34_Witness ==
    \E p \in Procs :
        /\ Finished(p, "followup")
        /\ b[p].db0 # SeedDb
        /\ \E m \in Range(b[p].outbox) :
             LET rec == Get(db[b[p].campaign_name].recipients, m.to)
             IN  /\ rec.followups_sent = 1
                 /\ rec.thread_index = m.thread_index
                 /\ DecodedLen(rec.thread_index) = 27

\* the record the store held for e when the batch of p started
Before(p, e) == Get(b[p].db0[b[p].campaign_name].recipients, e)

\* C35: in a follow-up batch without force-send, a due recipient that has
\* received a follow-up received it in a batch that started at least
\* interval_days before this one.
C35_NotDueWithinInterval ==
    \A p \in Procs :
        (b[p].kind = "followup" /\ ~b[p].force_send_now) =>
            \A e \in Range(b[p].due) :
                Before(p, e).followups_sent > 0 =>
                    b[p].now >= fromisoformat(Before(p, e).last_sent_date)
                                  + timedelta(b[p].interval_days)

\* a follow-up batch without force-send found nothing due although a
\* recipient, followed up once by a batch that was not forced either, has
\* follow-ups left
C35_Witness ==
    \E p \in Procs :
        /\ b[p].kind = "followup" /\ ~b[p].force_send_now
        /\ b[p].pc = "returned" /\ b[p].due = <<>>
        /\ b[p].campaign_name \in DOMAIN b[p].db0
        /\ \E rec \in Range(b[p].db0[b[p].campaign_name].recipients) :
             /\ rec.followups_sent = 1
             /\ rec.followups_sent < b[p].max_followups
             /\ fromisoformat(rec.last_sent_date) >= timedelta(LaunchDelayDays)
             /\ b[p].now < fromisoformat(rec.last_sent_date) + timedelta(b[p].interval_days)

\* the launch of p had rows, connected and came to its end
LaunchCompleted(p) ==
    /\ b[p].kind = "launch" /\ b[p].df # <<>>
    /\ b[p].server = "closed"
    /\ b[p].pc \in {"returned", "done"}

\* a finished launch has written its campaign, with the recipients it sent
\* to and no other
LaunchWritten(p) ==
    LaunchCompleted(p) =>
        /\ b[p].saved
        /\ b[p].campaign_name \in DOMAIN db
        /\ db[b[p].campaign_name].recipients = b[p].recipients
        /\ b[p].ret.sent = 0 => db[b[p].campaign_name].recipients = <<>>

\* a launch with rows that found its name in the store was rejected
LaterRejected(p) ==
    (b[p].kind = "launch" /\ b[p].df # <<>> /\ b[p].campaign_name \in DOMAIN b[p].db0) =>
        (b[p].server = "none" /\ b[p].ret = NoReturn /\ ~b[p].saved)

\* C36: a launch of a non-empty list that connected writes a campaign
\* record under its name when it finishes, with an empty recipient map when
\* every recipient failed; the name stays in the store, and every later
\* launch under it is rejected.
C36_FinishedLaunchTakesName ==
    /\ [](\A p \in Procs : LaunchWritten(p) /\ LaterRejected(p))
    /\ [][DOMAIN db \subseteq DOMAIN db']_vars

\* an earlier launch in which every recipient failed has left a campaign
\* without recipients, and a launch with rows under that name has returned
C36_Witness ==
    \E p \in Procs :
        /\ b[p].kind = "launch" /\ b[p].df # <<>>
        /\ b[p].pc = "returned"
        /\ b[p].campaign_name \in DOMAIN b[p].db0
        /\ b[p].db0[b[p].campaign_name].recipients = <<>>
        /\ b[p].total0 \in {0, SeedTotalSent}

\* C37 (as stated; the code does not keep it): after a finished launch the
\* campaign holds as many recipient records as the launch reports sent.
C37_RecordedEqualsSent ==
    \A p \in Procs :
        Finished(p, "launch") =>
            Len(db[b[p].campaign_name].recipients) = b[p].ret.sent

\* the record rec with the five fields a follow-up assigns taken from old
FrameOf(rec, old) ==
    [ rec EXCEPT !.followups_sent = old.followups_sent,
                 !.message_id = old.message_id,
                 !.thread_index = old.thread_index,
                 !.last_sent_date = old.last_sent_date,
                 !.next_followup_date = old.next_followup_date ]

\* C38: while and after a follow-up batch runs, the store differs from the
\* one the batch loaded at most in followups_sent, message_id, thread_index,
\* last_sent_date and next_followup_date of recipients of its campaign whose
\* submission was accepted in the batch.
C38_FollowupFrame ==
    \A p \in Procs :
        (b[p].kind = "followup" /\ b[p].pc # "idle") =>
            /\ DOMAIN db = DOMAIN b[p].db0
            /\ \A n \in DOMAIN db :
                 LET c == db[n]
                     c0 == b[p].db0[n]
                 IN  IF n # b[p].campaign_name THEN c = c0
                     ELSE /\ [c EXCEPT !.recipients = c0.recipients] = c0
                          /\ Len(c.recipients) = Len(c0.recipients)
                          /\ \A k \in DOMAIN c.recipients :
                               /\ FrameOf(c.recipients[k], c0.recipients[k])
                                     = c0.recipients[k]
                               /\ c.recipients[k].email \notin Accepted(p)
                                     => c.recipients[k] = c0.recipients[k]

\* a follow-up batch has saved a store with another campaign in it, having
\* sent to one recipient of its campaign and not to another
C38_Witness ==
    \E p \in Procs :
        /\ Finished(p, "followup")
        /\ DOMAIN db # { b[p].campaign_name }
        /\ Accepted(p) # {}
        /\ Keys(db[b[p].campaign_name].recipients) \ Accepted(p) # {}
        /\ db # b[p].db0

\* every recipient of the store d has received the planned follow-ups
AllCompleted(d) ==
    \A n \in DOMAIN d : \A rec \in Range(d[n].recipients) :
        rec.followups_sent >= d[n].total_followups_planned

\* once `planned` batches have been run, every recipient is completed
AfterPlanned ==
    (batches >= PlannedFollowups /\ b[Worker].pc = "done") => AllCompleted(db)

\* a follow-up batch that found every recipient completed sent nothing and
\* changed nothing
CompletedNoOp ==
    \A p \in Procs :
        (b[p].kind = "followup" /\ AllCompleted(b[p].db0)) =>
            /\ b[p].due = <<>> /\ b[p].attempts = <<>>
            /\ b[p].pc \in {"returned", "done"}
            /\ b[p].ret = NoReturn
            /\ db = b[p].db0 /\ total_sent = b[p].total0

\* no pass of the batch in progress failed to render
NoRenderFailure ==
    \A r \in Range(b[Worker].results) : r.Message \notin RenderErrors

\* the batch of the worker is not inside its loop
LoopLeft == ~(b[Worker].pc = "loop" /\ b[Worker].i <= Len(b[Worker].due))

====
